---- MODULE Spec2Model ----
(***************************************************************************)
(* TOUGH compiler core: the code generator (tough/codegen.py) lowering a   *)
(* Program AST to an IR module through an llvmlite-style builder, the      *)
(* driver (tough/compiler.py) and the expression sub-lexer                 *)
(* (tough/lexer.py), as state machines.                                    *)
(***************************************************************************)
EXTENDS Integers, Sequences, FiniteSets, TLC

VARIABLES
    program,         \* Program.statements handed to CodeGenerator.generate
    work,            \* the pending part of the generator's call stack
    module,          \* self.module: functions with their blocks, global strings
    builder,         \* self.builder: function, block and anchor of the IRBuilder
    variables,       \* self.variables: name -> alloca value
    functions,       \* self.functions: names registered by the generator
    string_counter,  \* self._string_counter
    status,          \* "idle", "gen", "done", "running", "exited", or the
                     \* name of the exception or signal that ended the run
    errLine,         \* CodeGenError.line of the raised error (0 when none)
    pc,              \* the compiled main: block and instruction reached
    regs,            \* the compiled main: values of the instructions run
    mem,             \* the compiled main: its stack slots
    output,          \* what the compiled program has printed
    trace,           \* labels of the blocks the compiled program entered
    stdin,           \* what scanf has read so far
    exitCode,        \* the process status once it has exited
    steps,           \* instructions the compiled program has run
    emitted,         \* the results of the compilations made before this one
    expr,            \* _tokenize_expr: the expression, as characters
    line_num,        \* _tokenize_expr: the line the expression is on
    pos,             \* _tokenize_expr: the position reached in expr
    tokens,          \* Lexer.tokens
    lines,           \* Lexer.lines: the source, line by line, as characters
    after_expr,      \* _tokenize_line: the tokens it appends once
                     \* _tokenize_expr has returned
    parser_pos,      \* Parser.pos
    buffer,          \* repl: the lines typed since the last compilation
    brace_depth      \* repl: opening minus closing braces of those lines

genVars == <<program, work, module, builder, variables, functions,
             string_counter, errLine>>
runVars == <<pc, regs, mem, output, stdin, trace, exitCode, steps>>
lexVars == <<expr, line_num, pos, tokens>>
frontVars == <<lines, after_expr, parser_pos, buffer, brace_depth>>
vars == <<genVars, status, runVars, emitted, lexVars, frontVars>>

----------------------------------------------------------------------------
(* AST nodes (tough/ast_nodes.py).  Every node carries its source line.     *)

IntLiteral(v, ln) == [k |-> "IntLiteral", value |-> v, line |-> ln]
\* a float literal d.f is kept as its value times ten
FloatLiteral(t, ln) == [k |-> "FloatLiteral", tenths |-> t, line |-> ln]
StringLiteral(s, ln) == [k |-> "StringLiteral", text |-> s, line |-> ln]
Identifier(n, ln) == [k |-> "Identifier", name |-> n, line |-> ln]
BinaryOp(o, l, r, ln) ==
    [k |-> "BinaryOp", op |-> o, left |-> l, right |-> r, line |-> ln]

ProgramStart(ln) == [k |-> "ProgramStart", line |-> ln]
ProgramEnd(ln) == [k |-> "ProgramEnd", line |-> ln]
Comment(ln) == [k |-> "Comment", line |-> ln]
DeclareStatement(n, ln) == [k |-> "DeclareStatement", name |-> n, line |-> ln]
AssignStatement(n, e, ln) ==
    [k |-> "AssignStatement", name |-> n, value |-> e, line |-> ln]
PrintStatement(e, ln) == [k |-> "PrintStatement", value |-> e, line |-> ln]
InputStatement(n, ln) == [k |-> "InputStatement", name |-> n, line |-> ln]
IncrementStatement(n, ln) ==
    [k |-> "IncrementStatement", name |-> n, line |-> ln]
DecrementStatement(n, ln) ==
    [k |-> "DecrementStatement", name |-> n, line |-> ln]
IfStatement(c, t, ei, el, ln) ==
    [k |-> "IfStatement", condition |-> c, then_body |-> t,
     elif_clauses |-> ei, else_body |-> el, line |-> ln]
WhileStatement(c, b, ln) ==
    [k |-> "WhileStatement", condition |-> c, body |-> b, line |-> ln]
FnStatement(n, ps, b, ln) ==
    [k |-> "FnStatement", name |-> n, params |-> ps, body |-> b, line |-> ln]
ThrowStatement(ln) == [k |-> "ThrowStatement", line |-> ln]

----------------------------------------------------------------------------
(* IR values and instructions (the llvmlite objects the generator builds).  *)

I64 == "i64"
I32 == "i32"
I1 == "i1"
PtrI64 == "i64*"
PtrI8 == "i8*"

Const(ty, n) == [k |-> "const", v |-> n, t |-> ty]
Reg(ty, n) == [k |-> "reg", v |-> n, t |-> ty]
Arg(n) == [k |-> "arg", v |-> n, t |-> I64]
NoVal == [k |-> "none", v |-> 0, t |-> "void"]

Instr(o, d, a, b, str, b1, b2) ==
    [op |-> o, dst |-> d, x |-> a, y |-> b, s |-> str, t1 |-> b1, t2 |-> b2]

IsTerminatorOp(o) == o \in {"br", "cbr", "ret"}

NoBuilder == [fn |-> 0, blk |-> 0, anchor |-> 0]
NoVars == [n \in {} |-> NoVal]

----------------------------------------------------------------------------
(* The generator state threaded through one handler: the fields of the     *)
(* CodeGenerator the handler reads and writes, the exception raised (err,  *)
(* "" when none) and the value the last builder call returned (val).       *)

GenState(m, b, v, c) ==
    [module |-> m, builder |-> b, variables |-> v, string_counter |-> c,
     err |-> "", line |-> 0, val |-> NoVal]

Raise(S, e, ln) ==
    IF S.err # "" THEN S ELSE [S EXCEPT !.err = e, !.line = ln]

CurFunc(S) == S.module.funcs[S.builder.fn]
CurBlock(S) == CurFunc(S).blocks[S.builder.blk]

Pointee(ty) == IF ty = PtrI64 THEN I64 ELSE IF ty = PtrI8 THEN "i8" ELSE "none"

\* IRBuilder._insert: block.instructions.insert(anchor, instr); anchor += 1
Insert(S, ins) ==
    LET f == S.builder.fn
        b == S.builder.blk
        a == S.builder.anchor
        old == S.module.funcs[f].blocks[b].instrs
        new == SubSeq(old, 1, a) \o <<ins>> \o SubSeq(old, a + 1, Len(old))
    IN  [S EXCEPT !.module.funcs[f].blocks[b].instrs = new,
                  !.builder.anchor = a + 1]

\* IRBuilder._set_terminator: assert not block.is_terminated
SetTerminator(S, ins) ==
    IF S.err # "" THEN S
    ELSE IF CurBlock(S).terminated THEN Raise(S, "AssertionError", 0)
    ELSE LET S1 == Insert(S, ins)
         IN  [S1 EXCEPT
                !.module.funcs[S.builder.fn].blocks[S.builder.blk].terminated
                    = TRUE]

\* an instruction with a result: the function's next value number names it
EmitVal(S, o, ty, a, b, str) ==
    IF S.err # "" THEN S
    ELSE LET f == S.builder.fn
             id == S.module.funcs[f].nvals + 1
             S1 == [S EXCEPT !.module.funcs[f].nvals = id]
         IN  [Insert(S1, Instr(o, id, a, b, str, 0, 0)) EXCEPT
                !.val = Reg(ty, id)]

EmitVoid(S, o, a, b, str) ==
    IF S.err # "" THEN S ELSE Insert(S, Instr(o, 0, a, b, str, 0, 0))

B_alloca(S, name) == EmitVal(S, "alloca", PtrI64, NoVal, NoVal, name)

\* IRBuilder.store raises TypeError when ptr.type.pointee != value.type
B_store(S, value, ptr) ==
    IF S.err # "" THEN S
    ELSE IF Pointee(ptr.t) # value.t THEN Raise(S, "TypeError", 0)
    ELSE EmitVoid(S, "store", value, ptr, "")

B_load(S, ptr) == EmitVal(S, "load", Pointee(ptr.t), ptr, NoVal, "")

\* add, sub, srem: llvmlite's _binop raises ValueError on operand types
\* that differ
B_binop(S, o, l, r) ==
    IF S.err # "" THEN S
    ELSE IF l.t # r.t THEN Raise(S, "ValueError", 0)
    ELSE EmitVal(S, o, l.t, l, r, "")

B_icmp_signed(S, pred, l, r) == EmitVal(S, "icmp", I1, l, r, pred)
B_zext(S, v) == EmitVal(S, "zext", I64, v, NoVal, "")
\* printf and scanf return i32, exit returns nothing
B_call(S, callee, a, b) ==
    IF callee = "exit" THEN EmitVoid(S, "call", a, b, callee)
    ELSE EmitVal(S, "call", I32, a, b, callee)
B_branch(S, target) ==
    SetTerminator(S, Instr("br", 0, NoVal, NoVal, "", target, 0))
B_cbranch(S, c, bt, bf) ==
    SetTerminator(S, Instr("cbr", 0, c, NoVal, "", bt, bf))
B_ret(S, v) == SetTerminator(S, Instr("ret", 0, v, NoVal, "", 0, 0))

\* Function.append_basic_block: the new block is the function's last one
AppendBlock(S, f, lbl) ==
    IF S.err # "" THEN S
    ELSE [S EXCEPT !.module.funcs[f].blocks =
            Append(@, [label |-> lbl, instrs |-> <<>>, terminated |-> FALSE])]

NextBlockId(S, f) == Len(S.module.funcs[f].blocks) + 1

PositionAtStart(S, b) ==
    IF S.err # "" THEN S
    ELSE [S EXCEPT !.builder.blk = b, !.builder.anchor = 0]

\* _create_global_string: the counter is incremented, then names .str.<n>
GlobalRef(n) == [k |-> "global", v |-> n, t |-> "[n x i8]*"]

CreateGlobalString(S, text) ==
    IF S.err # "" THEN S
    ELSE LET n == S.string_counter + 1
         IN  [S EXCEPT !.string_counter = n,
                       !.module.globals = Append(@, [n |-> n, text |-> text]),
                       !.val = GlobalRef(n)]

\* _get_string_ptr: gep global, [0, 0]
GetStringPtr(S) ==
    IF S.err # "" THEN S
    ELSE EmitVal(S, "gep", PtrI8, S.val, NoVal, "")

\* int(expr.value) of a float d.f held as tenths: truncation toward zero
TruncTenths(t) == IF t >= 0 THEN t \div 10 ELSE -((-t) \div 10)

CmpOps == {"==", "!=", ">", "<"}

\* mutant: an unknown name reads as 0 instead of raising
GenIdentifier_UnknownIsZero(e, S) ==
    IF e.name \notin DOMAIN S.variables
    THEN [S EXCEPT !.val = Const(I64, 0)]
    ELSE B_load(S, S.variables[e.name])

\* the Identifier case of _gen_expression
GenIdentifier(e, S) ==
    IF e.name \notin DOMAIN S.variables
    THEN Raise(S, "CodeGenError", e.line)
    ELSE B_load(S, S.variables[e.name])

RECURSIVE GenExpression(_, _)
GenExpression(e, S) ==
    IF S.err # "" THEN S
    ELSE CASE e.k = "IntLiteral" -> [S EXCEPT !.val = Const(I64, e.value)]
           [] e.k = "FloatLiteral" ->
                [S EXCEPT !.val = Const(I64, TruncTenths(e.tenths))]
           [] e.k = "Identifier" -> GenIdentifier(e, S)
           [] e.k = "BinaryOp" ->
                LET L == GenExpression(e.left, S)
                    R == GenExpression(e.right, L)
                IN  IF R.err # "" THEN R
                    ELSE IF e.op \in CmpOps
                    THEN LET C == B_icmp_signed(R, e.op, L.val, R.val)
                         IN  B_zext(C, C.val)
                    ELSE IF e.op = "%"
                    THEN B_binop(R, "srem", L.val, R.val)
                    ELSE Raise(R, "CodeGenError", e.line)
           [] e.k = "StringLiteral" ->
                GetStringPtr(CreateGlobalString(S, e.text))
           [] OTHER -> Raise(S, "CodeGenError", e.line)

----------------------------------------------------------------------------
(* Statement lowering (the _gen_ methods of CodeGenerator), each as a      *)
(* function of the generator state.                                        *)

SetVar(vs, n, v) ==
    [m \in (DOMAIN vs) \cup {n} |-> IF m = n THEN v ELSE vs[m]]

\* ProgramEnd (code 0) and ThrowStatement (code 1): call exit, then ret
GenExit(S, code) ==
    LET C == B_call(S, "exit", Const(I32, code), NoVal)
    IN  B_ret(C, Const(I32, code))

GenDeclareOp(stmt, S) ==
    LET A == B_alloca(S, stmt.name)
        T == B_store(A, Const(I64, 0), A.val)
    IN  IF T.err # "" THEN T
        ELSE [T EXCEPT !.variables = SetVar(@, stmt.name, A.val)]

\* (variant: the slot is looked up or created before the value is lowered)
GenAssignOp_SlotFirst(stmt, S) ==
    LET A == IF stmt.name \notin DOMAIN S.variables
             THEN LET N == B_alloca(S, stmt.name)
                  IN  [N EXCEPT !.variables = SetVar(@, stmt.name, N.val)]
             ELSE S
        V == GenExpression(stmt.value, A)
    IN  IF V.err # "" THEN V
        ELSE B_store(V, V.val, V.variables[stmt.name])

GenAssignOp(stmt, S) ==
    LET V == GenExpression(stmt.value, S)
        A == IF stmt.name \notin DOMAIN V.variables
             THEN LET N == B_alloca(V, stmt.name)
                  IN  [N EXCEPT !.variables = SetVar(@, stmt.name, N.val)]
             ELSE V
    IN  IF V.err # "" THEN V
        ELSE B_store(A, V.val, A.variables[stmt.name])

GenPrintOp(stmt, S) ==
    IF stmt.value.k = "StringLiteral"
    THEN LET F == GetStringPtr(CreateGlobalString(S, "%s\n"))
             T == GetStringPtr(CreateGlobalString(F, stmt.value.text))
         IN  B_call(T, "printf", F.val, T.val)
    ELSE LET V == GenExpression(stmt.value, S)
             F == GetStringPtr(CreateGlobalString(V, "%lld\n"))
         IN  B_call(F, "printf", F.val, V.val)

GenInputOp(stmt, S) ==
    LET A == IF stmt.name \notin DOMAIN S.variables
             THEN LET N == B_alloca(S, stmt.name)
                  IN  [N EXCEPT !.variables = SetVar(@, stmt.name, N.val)]
             ELSE S
        F == GetStringPtr(CreateGlobalString(A, "%lld"))
    IN  B_call(F, "scanf", F.val, A.variables[stmt.name])

\* mutant: a missing slot is created, as _gen_input does
GenStepOp_CreatesSlot(stmt, S, o) ==
    LET A == IF stmt.name \notin DOMAIN S.variables
             THEN LET N == B_alloca(S, stmt.name)
                  IN  [N EXCEPT !.variables = SetVar(@, stmt.name, N.val)]
             ELSE S
        C == B_load(A, A.variables[stmt.name])
        N == B_binop(C, o, C.val, Const(I64, 1))
    IN  B_store(N, N.val, A.variables[stmt.name])

\* _gen_increment (o = "add") and _gen_decrement (o = "sub")
GenStepOp(stmt, S, o) ==
    IF stmt.name \notin DOMAIN S.variables
    THEN Raise(S, "CodeGenError", stmt.line)
    ELSE LET C == B_load(S, S.variables[stmt.name])
             N == B_binop(C, o, C.val, Const(I64, 1))
         IN  B_store(N, N.val, S.variables[stmt.name])

GenIncrementOp(stmt, S) == GenStepOp(stmt, S, "add")
GenDecrementOp(stmt, S) == GenStepOp(stmt, S, "sub")

\* (variant: the condition is true only when its value is 1)
GenCondBranch_TrueIsOne(S, c, bt, bf) ==
    LET V == GenExpression(c, S)
        B == B_icmp_signed(V, "==", V.val, Const(I64, 1))
    IN  B_cbranch(B, B.val, bt, bf)

\* cond_val = _gen_expression(c); icmp != 0; cbranch(bt, bf)
GenCondBranch(S, c, bt, bf) ==
    LET V == GenExpression(c, S)
        B == B_icmp_signed(V, "!=", V.val, Const(I64, 0))
    IN  B_cbranch(B, B.val, bt, bf)

RECURSIVE AppendBlocks(_, _, _)
AppendBlocks(S, f, labels) ==
    IF labels = <<>> THEN S
    ELSE AppendBlocks(AppendBlock(S, f, Head(labels)), f, Tail(labels))

\* the frames of the interrupted handlers, innermost first
StmtsFrames(ss) == IF ss = <<>> THEN <<>> ELSE <<[k |-> "stmts", stmts |-> ss]>>
CloseFrame(tg, nx) == [k |-> "close", target |-> tg, next |-> nx]
ElifFrame(cb, bb, c, nt) ==
    [k |-> "elif", cond_bb |-> cb, body_bb |-> bb, cond |-> c,
     next_target |-> nt]
FnExitFrame(b, v) == [k |-> "fnexit", saved_builder |-> b, saved_vars |-> v]
MainExitFrame == [k |-> "mainexit"]

\* block numbers _gen_if creates, base = the function's block count before
IfThenBB(base) == base + 1
IfMergeBB(base) == base + 2
IfElifCondBB(base, i) == base + 2 * i + 1
IfElifBodyBB(base, i) == base + 2 * i + 2
IfElseBB(base, n) == base + 2 * n + 3

\* f"elif.cond.{i}" and f"elif.body.{i}" of the i-th clause, i from 1 here
\* and from 0 in the names
ElifCondLabel(i) == "elif.cond." \o ToString(i - 1)
ElifBodyLabel(i) == "elif.body." \o ToString(i - 1)

IfLabels(stmt) ==
    <<"if.then", "if.merge">>
    \o [j \in 1..(2 * Len(stmt.elif_clauses)) |->
            IF j % 2 = 1 THEN ElifCondLabel((j + 1) \div 2)
            ELSE ElifBodyLabel(j \div 2)]
    \o (IF stmt.else_body # <<>> THEN <<"if.else">> ELSE <<>>)

\* mutant: a false condition leaves the elif clauses out
IfFalseTarget_SkipsElifs(stmt, base, i) ==
    IF stmt.else_body # <<>> THEN IfElseBB(base, Len(stmt.elif_clauses))
    ELSE IfMergeBB(base)

\* the false target of the if (i = 0) or of elif i: the next elif's
\* condition block, else the else block, else merge
IfFalseTarget(stmt, base, i) ==
    LET n == Len(stmt.elif_clauses)
    IN  IF i + 1 <= n THEN IfElifCondBB(base, i + 1)
        ELSE IF stmt.else_body # <<>> THEN IfElseBB(base, n)
        ELSE IfMergeBB(base)

\* where the builder goes after the body of the if (i = 0) or of elif i:
\* 0 (the next elif positions itself), the else block, or merge
IfNextPos(stmt, base, i) ==
    LET n == Len(stmt.elif_clauses)
    IN  IF i + 1 <= n THEN 0
        ELSE IF stmt.else_body # <<>> THEN IfElseBB(base, n)
        ELSE IfMergeBB(base)

RECURSIVE IfElifFrames(_, _, _)
IfElifFrames(stmt, base, i) ==
    IF i > Len(stmt.elif_clauses) THEN <<>>
    ELSE <<ElifFrame(IfElifCondBB(base, i), IfElifBodyBB(base, i),
                     stmt.elif_clauses[i][1], IfFalseTarget(stmt, base, i))>>
         \o StmtsFrames(stmt.elif_clauses[i][2])
         \o <<CloseFrame(IfMergeBB(base), IfNextPos(stmt, base, i))>>
         \o IfElifFrames(stmt, base, i + 1)

IfFrames(stmt, base) ==
    StmtsFrames(stmt.then_body)
    \o <<CloseFrame(IfMergeBB(base), IfNextPos(stmt, base, 0))>>
    \o IfElifFrames(stmt, base, 1)
    \o (IF stmt.else_body # <<>>
        THEN StmtsFrames(stmt.else_body)
             \o <<CloseFrame(IfMergeBB(base), IfMergeBB(base))>>
        ELSE <<>>)

\* _gen_if up to the start of the then body
GenIfOp(stmt, S) ==
    LET f == S.builder.fn
        base == Len(S.module.funcs[f].blocks)
        A == AppendBlocks(S, f, IfLabels(stmt))
        C == GenCondBranch(A, stmt.condition, IfThenBB(base),
                           IfFalseTarget(stmt, base, 0))
    IN  PositionAtStart(C, IfThenBB(base))

\* _gen_while up to the start of the body
GenWhileOp(stmt, S) ==
    LET f == S.builder.fn
        base == Len(S.module.funcs[f].blocks)
        A == AppendBlocks(S, f, <<"while.cond", "while.body", "while.merge">>)
        J == B_branch(A, base + 1)
        P == PositionAtStart(J, base + 1)
        C == GenCondBranch(P, stmt.condition, base + 2, base + 3)
    IN  PositionAtStart(C, base + 2)

\* mutant: the body ends with a branch to merge, not back to the condition
WhileFrames_LeavesAfterBody(stmt, base) ==
    StmtsFrames(stmt.body) \o <<CloseFrame(base + 3, base + 3)>>

\* the body, then `if not terminated: branch(cond_bb)` and
\* position_at_start(merge_bb)
WhileFrames(stmt, base) ==
    StmtsFrames(stmt.body) \o <<CloseFrame(base + 1, base + 3)>>

\* (variant: the names whose slot was created in the block that ends leave
\* the table with it)
CloseOp_BlockScoped(fr, S) ==
    LET B == IF CurBlock(S).terminated THEN S ELSE B_branch(S, fr.target)
        R == IF fr.next = 0 THEN B ELSE PositionAtStart(B, fr.next)
        local == { n \in DOMAIN S.variables :
                     \E i \in 1..Len(CurBlock(S).instrs) :
                         /\ CurBlock(S).instrs[i].op = "alloca"
                         /\ S.variables[n] = Reg(PtrI64, CurBlock(S).instrs[i].dst) }
    IN  [R EXCEPT !.variables = [n \in (DOMAIN S.variables) \ local |->
                                    S.variables[n]]]

\* `if not self.builder.block.is_terminated: self.builder.branch(target)`,
\* then position_at_start(next) when the code positions the builder there
CloseOp(fr, S) ==
    LET B == IF CurBlock(S).terminated THEN S ELSE B_branch(S, fr.target)
    IN  IF fr.next = 0 THEN B ELSE PositionAtStart(B, fr.next)

\* the elif part of _gen_if up to the start of the elif body
ElifOp(fr, S) ==
    LET P == PositionAtStart(S, fr.cond_bb)
        C == GenCondBranch(P, fr.cond, fr.body_bb, fr.next_target)
    IN  PositionAtStart(C, fr.body_bb)

\* names llvmlite's module scope already holds
ExternalNames == {"printf", "scanf", "exit"}
GlobalNames(m) == ExternalNames \cup {m.funcs[i].name : i \in 1..Len(m.funcs)}

NewFunction(nm, rt, ps) ==
    [name |-> nm, ret |-> rt, args |-> ps,
     blocks |-> <<[label |-> "entry", instrs |-> <<>>, terminated |-> FALSE]>>,
     nvals |-> 0]

RECURSIVE BindParams(_, _, _)
BindParams(S, params, i) ==
    IF i > Len(params) THEN S
    ELSE LET A == B_alloca(S, params[i])
             T == B_store(A, Arg(i), A.val)
         IN  BindParams([T EXCEPT !.variables = SetVar(@, params[i], A.val)],
                        params, i + 1)

\* mutant: the body starts from the caller's table
GenFunctionOp_InheritsVars(stmt, S) ==
    IF stmt.name \in GlobalNames(S.module)
    THEN Raise(S, "DuplicatedNameError", 0)
    ELSE LET fi == Len(S.module.funcs) + 1
             N == [S EXCEPT
                     !.module.funcs =
                        Append(@, NewFunction(stmt.name, I64, stmt.params)),
                     !.builder = [fn |-> fi, blk |-> 1, anchor |-> 0]]
         IN  BindParams(N, stmt.params, 1)

\* _gen_function up to the start of the body
GenFunctionOp(stmt, S) ==
    IF stmt.name \in GlobalNames(S.module)
    THEN Raise(S, "DuplicatedNameError", 0)
    ELSE LET fi == Len(S.module.funcs) + 1
             N == [S EXCEPT
                     !.module.funcs =
                        Append(@, NewFunction(stmt.name, I64, stmt.params)),
                     !.builder = [fn |-> fi, blk |-> 1, anchor |-> 0],
                     !.variables = NoVars]
         IN  BindParams(N, stmt.params, 1)

\* mutant: the builder is restored, the variable table is not
FnExitOp_KeepsBodyTable(fr, S) ==
    LET R == IF CurBlock(S).terminated THEN S ELSE B_ret(S, Const(I64, 0))
    IN  IF R.err # "" THEN R
        ELSE [R EXCEPT !.builder = fr.saved_builder]

\* the end of _gen_function: ret 0 when unterminated, then restore
FnExitOp(fr, S) ==
    LET R == IF CurBlock(S).terminated THEN S ELSE B_ret(S, Const(I64, 0))
    IN  IF R.err # "" THEN R
        ELSE [R EXCEPT !.builder = fr.saved_builder,
                       !.variables = fr.saved_vars]

\* the end of generate: ret i32 0 when the last block is unterminated
MainExitOp(S) ==
    IF CurBlock(S).terminated THEN S ELSE B_ret(S, Const(I32, 0))

----------------------------------------------------------------------------
(* Source lines.  The lexer gives every token of a line that line's number  *)
(* and the parser copies it into the node, so a statement and the           *)
(* expressions on its line share a line number; a block's closing brace     *)
(* takes a line of its own.                                                 *)

RECURSIVE SetLine(_, _)
SetLine(e, ln) ==
    IF e.k = "BinaryOp"
    THEN [e EXCEPT !.line = ln, !.left = SetLine(e.left, ln),
                   !.right = SetLine(e.right, ln)]
    ELSE [e EXCEPT !.line = ln]

RECURSIVE NumberStmts(_, _)
RECURSIVE NumberElifs(_, _)

\* one statement starting at line ln: the numbered statement and the next
\* free line
NumberStmt(st, ln) ==
    CASE st.k \in {"AssignStatement", "PrintStatement"} ->
            [st |-> [st EXCEPT !.line = ln, !.value = SetLine(st.value, ln)],
             next |-> ln + 1]
      [] st.k = "IfStatement" ->
            LET T == NumberStmts(st.then_body, ln + 1)
                E == NumberElifs(st.elif_clauses, T.next + 1)
                L == IF st.else_body = <<>>
                     THEN [ss |-> <<>>, next |-> E.next]
                     ELSE LET B == NumberStmts(st.else_body, E.next + 1)
                          IN  [ss |-> B.ss, next |-> B.next + 1]
            IN  [st |-> [st EXCEPT !.line = ln,
                                   !.condition = SetLine(st.condition, ln),
                                   !.then_body = T.ss,
                                   !.elif_clauses = E.ss,
                                   !.else_body = L.ss],
                 next |-> L.next]
      [] st.k = "WhileStatement" ->
            LET B == NumberStmts(st.body, ln + 1)
            IN  [st |-> [st EXCEPT !.line = ln,
                                   !.condition = SetLine(st.condition, ln),
                                   !.body = B.ss],
                 next |-> B.next + 1]
      [] st.k = "FnStatement" ->
            LET B == NumberStmts(st.body, ln + 1)
            IN  [st |-> [st EXCEPT !.line = ln, !.body = B.ss],
                 next |-> B.next + 1]
      [] OTHER -> [st |-> [st EXCEPT !.line = ln], next |-> ln + 1]

NumberStmts(ss, ln) ==
    IF ss = <<>> THEN [ss |-> <<>>, next |-> ln]
    ELSE LET H == NumberStmt(Head(ss), ln)
             R == NumberStmts(Tail(ss), H.next)
         IN  [ss |-> <<H.st>> \o R.ss, next |-> R.next]

NumberElifs(cs, ln) ==
    IF cs = <<>> THEN [ss |-> <<>>, next |-> ln]
    ELSE LET B == NumberStmts(Head(cs)[2], ln + 1)
             R == NumberElifs(Tail(cs), B.next + 1)
         IN  [ss |-> <<(<<SetLine(Head(cs)[1], ln), B.ss>>)>> \o R.ss,
              next |-> R.next]

Numbered(ss) == NumberStmts(ss, 1).ss

----------------------------------------------------------------------------
(* The programs compiled: statement lists of at most MaxStmts top-level     *)
(* statements, as the parser builds them, over two variable names.          *)

MaxStmts == 2

X == Identifier("x", 0)
Y == Identifier("y", 0)
XLt3 == BinaryOp("<", X, IntLiteral(3, 0), 0)

LeafStmts ==
    { ProgramEnd(0), ThrowStatement(0), Comment(0), ProgramStart(0),
      DeclareStatement("x", 0), AssignStatement("x", IntLiteral(1, 0), 0),
      AssignStatement("y", X, 0), PrintStatement(X, 0),
      PrintStatement(StringLiteral("s", 0), 0), InputStatement("x", 0),
      IncrementStatement("x", 0), DecrementStatement("y", 0) }

Bodies ==
    { <<IncrementStatement("x", 0)>>,
      <<ProgramEnd(0), IncrementStatement("x", 0)>>,
      <<AssignStatement("y", IntLiteral(1, 0), 0)>>, <<PrintStatement(Y, 0)>> }

CompoundStmts ==
    { IfStatement(X, b, <<>>, <<>>, 0) : b \in Bodies }
    \cup { WhileStatement(XLt3, b, 0) : b \in Bodies }
    \cup { FnStatement("f", <<"y">>, b, 0) : b \in Bodies }
    \cup { IfStatement(X, <<IncrementStatement("x", 0)>>,
                       << <<XLt3, <<InputStatement("y", 0)>> >>,
                          <<Y, <<ThrowStatement(0)>> >> >>,
                       <<DecrementStatement("x", 0)>>, 0),
           WhileStatement(X, <<IfStatement(XLt3, <<ThrowStatement(0)>>, <<>>,
                                           <<IncrementStatement("x", 0)>>, 0),
                               DecrementStatement("x", 0)>>, 0),
           FnStatement("g", <<"x">>,
                       <<FnStatement("f", <<"y">>, <<PrintStatement(Y, 0)>>, 0),
                         IncrementStatement("x", 0)>>, 0),
           FnStatement("g", <<"x">>,
                       <<FnStatement("f", <<"y">>, <<PrintStatement(X, 0)>>, 0)
                       >>, 0) }

StmtPool == LeafStmts \cup CompoundStmts

SeqsUpTo(S, n) == UNION {[1..m -> S] : m \in 0..n}

\* a program may open with the declaration most statements depend on
Preludes == {<<>>, <<DeclareStatement("x", 0)>>}

\* programs with a string literal where a number is meant: assigned, compared,
\* under %, and as the condition of an if, an elif and a while
Str == StringLiteral("s", 0)
StrEq1 == BinaryOp("==", Str, IntLiteral(1, 0), 0)

StringPrograms ==
    { <<AssignStatement("x", Str, 0)>>,
      <<PrintStatement(StrEq1, 0)>>,
      <<PrintStatement(BinaryOp("%", Str, Str, 0), 0)>>,
      <<AssignStatement("x", BinaryOp(">", IntLiteral(1, 0), Str, 0), 0)>>,
      <<IfStatement(Str, <<PrintStatement(Str, 0)>>, <<>>, <<>>, 0)>>,
      <<IfStatement(IntLiteral(0, 0), <<>>,
                    << <<Str, <<PrintStatement(Str, 0)>> >> >>, <<>>, 0)>>,
      <<WhileStatement(Str, <<ProgramEnd(0)>>, 0)>>,
      <<ProgramEnd(0), PrintStatement(StrEq1, 0)>> }

\* assignments whose right-hand side reads the target or another variable
SelfAssign == AssignStatement("x", X, 0)

AssignPrograms ==
    { <<SelfAssign>>,
      <<SelfAssign, PrintStatement(X, 0)>>,
      <<DeclareStatement("x", 0), SelfAssign, SelfAssign>>,
      <<AssignStatement("x", IntLiteral(1, 0), 0), SelfAssign,
        AssignStatement("y", BinaryOp("%", X, X, 0), 0)>>,
      <<InputStatement("x", 0), AssignStatement("y", XLt3, 0),
        AssignStatement("x", Y, 0)>>,
      <<AssignStatement("y", IntLiteral(1, 0), 0),
        AssignStatement("x", BinaryOp("==", Y, X, 0), 0)>> }

\* a name introduced in a then, elif, else or while body by Declare, Assign
\* or Input, and used behind the statement, at top level and in a function
BodyIntroductions ==
    UNION { { <<DeclareStatement("x", 0),
                IfStatement(X, <<intro>>, <<>>, <<>>, 0), use>>,
              <<DeclareStatement("x", 0),
                IfStatement(X, <<>>, << <<X, <<intro>> >> >>, <<>>, 0), use>>,
              <<DeclareStatement("x", 0),
                IfStatement(X, <<>>, <<>>, <<intro>>, 0), use>>,
              <<DeclareStatement("x", 0),
                WhileStatement(X, <<intro>>, 0), use>>,
              <<FnStatement("f", <<"x">>,
                            <<WhileStatement(X, <<intro>>, 0), use>>, 0),
                use>> } :
            intro \in { DeclareStatement("y", 0),
                        AssignStatement("y", IntLiteral(1, 0), 0),
                        InputStatement("y", 0) },
            use \in { PrintStatement(Y, 0), IncrementStatement("y", 0),
                      DecrementStatement("y", 0) } }

Programs ==
    {Numbered(a \o p) : a \in Preludes, p \in SeqsUpTo(StmtPool, MaxStmts)}
    \cup {Numbered(p) : p \in StringPrograms \cup AssignPrograms
                                \cup BodyIntroductions}

----------------------------------------------------------------------------
(* Compiler.compile_source and CodeGenerator.generate, one action per       *)
(* handler.                                                                 *)

EmptyModule == [funcs |-> <<>>, globals |-> <<>>]

NoRegs == [r \in {} |-> 0]

\* no Lexer, Parser or interactive shell has been constructed
NoSource ==
    /\ lines = <<>>
    /\ after_expr = <<>>
    /\ parser_pos = 0
    /\ buffer = <<>>
    /\ brace_depth = 0

\* _tokenize_expr has not been entered
NotLexing ==
    /\ expr = <<>>
    /\ line_num = 0
    /\ pos = 0
    /\ tokens = <<>>

\* no compiled program has been started
NotRunning ==
    /\ pc = [blk |-> 0, idx |-> 0]
    /\ regs = NoRegs
    /\ mem = <<>>
    /\ output = <<>>
    /\ stdin = <<>>
    /\ trace = <<>>
    /\ exitCode = 0
    /\ steps = 0

InitOf(programs) ==
    /\ program \in programs
    /\ work = <<>>
    /\ module = EmptyModule
    /\ builder = NoBuilder
    /\ variables = NoVars
    /\ functions = [n \in {} |-> 0]
    /\ string_counter = 0
    /\ status = "idle"
    /\ errLine = 0
    /\ NotRunning
    /\ emitted = <<>>
    /\ NotLexing
    /\ NoSource

Init == InitOf(Programs)

\* mutant: the string counter is shared by all generators
NewGenerator_SharesCounter ==
    GenState(EmptyModule, NoBuilder, NoVars, string_counter)

\* CodeGenerator.__init__(): a new module, no variables, counter 0
NewGenerator == GenState(EmptyModule, NoBuilder, NoVars, 0)

\* generate() up to the statement loop: main with its entry block
GenerateOp(S) ==
    [S EXCEPT !.module.funcs = Append(@, NewFunction("main", I32, <<>>)),
              !.builder = [fn |-> Len(S.module.funcs) + 1, blk |-> 1,
                           anchor |-> 0]]

Cur == GenState(module, builder, variables, string_counter)

Commit(S, w) ==
    /\ module' = S.module
    /\ builder' = S.builder
    /\ variables' = S.variables
    /\ string_counter' = S.string_counter
    /\ status' = IF S.err = "" THEN "gen" ELSE S.err
    /\ errLine' = S.line
    /\ work' = IF S.err = "" THEN w ELSE <<>>

CompileSource ==
    /\ status = "idle"
    /\ Commit(GenerateOp(NewGenerator),
              StmtsFrames(program) \o <<MainExitFrame>>)
    /\ functions' = [n \in {"main"} |-> 1]
    /\ UNCHANGED <<program, runVars, emitted, lexVars, frontVars>>

AtStmt(kinds) ==
    /\ status = "gen"
    /\ work # <<>>
    /\ Head(work).k = "stmts"
    /\ Head(work).stmts[1].k \in kinds

AtFrame(kind) ==
    /\ status = "gen"
    /\ work # <<>>
    /\ Head(work).k = kind

CurStmt == Head(work).stmts[1]

\* the call stack once the current statement's handler has returned
Popped ==
    IF Len(Head(work).stmts) = 1 THEN Tail(work)
    ELSE <<[Head(work) EXCEPT !.stmts = Tail(@)]>> \o Tail(work)

GenSkip ==
    /\ AtStmt({"Comment", "ProgramStart"})
    /\ Commit(Cur, Popped)
    /\ UNCHANGED <<program, functions, runVars, emitted, lexVars, frontVars>>

GenProgramEnd ==
    /\ AtStmt({"ProgramEnd"})
    /\ Commit(GenExit(Cur, 0), Popped)
    /\ UNCHANGED <<program, functions, runVars, emitted, lexVars, frontVars>>

GenThrow ==
    /\ AtStmt({"ThrowStatement"})
    /\ Commit(GenExit(Cur, 1), Popped)
    /\ UNCHANGED <<program, functions, runVars, emitted, lexVars, frontVars>>

GenDeclare ==
    /\ AtStmt({"DeclareStatement"})
    /\ Commit(GenDeclareOp(CurStmt, Cur), Popped)
    /\ UNCHANGED <<program, functions, runVars, emitted, lexVars, frontVars>>

GenAssign ==
    /\ AtStmt({"AssignStatement"})
    /\ Commit(GenAssignOp(CurStmt, Cur), Popped)
    /\ UNCHANGED <<program, functions, runVars, emitted, lexVars, frontVars>>

GenPrint ==
    /\ AtStmt({"PrintStatement"})
    /\ Commit(GenPrintOp(CurStmt, Cur), Popped)
    /\ UNCHANGED <<program, functions, runVars, emitted, lexVars, frontVars>>

GenInput ==
    /\ AtStmt({"InputStatement"})
    /\ Commit(GenInputOp(CurStmt, Cur), Popped)
    /\ UNCHANGED <<program, functions, runVars, emitted, lexVars, frontVars>>

GenIncrement ==
    /\ AtStmt({"IncrementStatement"})
    /\ Commit(GenIncrementOp(CurStmt, Cur), Popped)
    /\ UNCHANGED <<program, functions, runVars, emitted, lexVars, frontVars>>

GenDecrement ==
    /\ AtStmt({"DecrementStatement"})
    /\ Commit(GenDecrementOp(CurStmt, Cur), Popped)
    /\ UNCHANGED <<program, functions, runVars, emitted, lexVars, frontVars>>

GenIf ==
    /\ AtStmt({"IfStatement"})
    /\ Commit(GenIfOp(CurStmt, Cur),
              IfFrames(CurStmt, Len(CurFunc(Cur).blocks)) \o Popped)
    /\ UNCHANGED <<program, functions, runVars, emitted, lexVars, frontVars>>

GenWhile ==
    /\ AtStmt({"WhileStatement"})
    /\ Commit(GenWhileOp(CurStmt, Cur),
              WhileFrames(CurStmt, Len(CurFunc(Cur).blocks)) \o Popped)
    /\ UNCHANGED <<program, functions, runVars, emitted, lexVars, frontVars>>

GenElif ==
    /\ AtFrame("elif")
    /\ Commit(ElifOp(Head(work), Cur), Tail(work))
    /\ UNCHANGED <<program, functions, runVars, emitted, lexVars, frontVars>>

CloseBody ==
    /\ AtFrame("close")
    /\ Commit(CloseOp(Head(work), Cur), Tail(work))
    /\ UNCHANGED <<program, functions, runVars, emitted, lexVars, frontVars>>

GenFunction ==
    /\ AtStmt({"FnStatement"})
    /\ LET S == GenFunctionOp(CurStmt, Cur)
       IN  /\ Commit(S, StmtsFrames(CurStmt.body)
                        \o <<FnExitFrame(builder, variables)>> \o Popped)
           /\ functions' = IF S.err = "" THEN SetVar(functions, CurStmt.name,
                                                     Len(S.module.funcs))
                           ELSE functions
    /\ UNCHANGED <<program, runVars, emitted, lexVars, frontVars>>

FnExit ==
    /\ AtFrame("fnexit")
    /\ Commit(FnExitOp(Head(work), Cur), Tail(work))
    /\ UNCHANGED <<program, functions, runVars, emitted, lexVars, frontVars>>

\* the end of generate: the module is returned
Finish ==
    /\ AtFrame("mainexit")
    /\ LET S == MainExitOp(Cur)
       IN  /\ module' = S.module
           /\ builder' = S.builder
           /\ variables' = S.variables
           /\ string_counter' = S.string_counter
           /\ status' = IF S.err = "" THEN "done" ELSE S.err
           /\ errLine' = S.line
           /\ work' = <<>>
    /\ UNCHANGED <<program, functions, runVars, emitted, lexVars, frontVars>>

Next ==
    \/ CompileSource
    \/ GenSkip
    \/ GenProgramEnd
    \/ GenThrow
    \/ GenDeclare
    \/ GenAssign
    \/ GenPrint
    \/ GenInput
    \/ GenIncrement
    \/ GenDecrement
    \/ GenIf
    \/ GenWhile
    \/ GenElif
    \/ CloseBody
    \/ GenFunction
    \/ FnExit
    \/ Finish

Spec == Init /\ [][Next]_vars

----------------------------------------------------------------------------
(* Lexer._tokenize_expr, one action per turn of its loop.  An expression    *)
(* is a sequence of characters; pos counts from 0 as in the code.           *)

Token(ty, val, ln) == [type |-> ty, value |-> val, line |-> ln]

\* A character is a string: an ASCII character is itself, any other has a
\* name, the kana and kanji of the keywords a name that starts with k_.
OpenQuote == "U+300C"
CloseQuote == "U+300D"
WideSpace == "U+3000"
SuperTwo == "U+00B2"

\* EXPR_KEYWORDS, in the order of the list: NEQ is gachinko-janai, EQ is
\* gachinko, GT is wo-koeta, LT is ni-oyobanai
KwNEQ == <<"k_ga", "k_chi", "k_n", "k_ko", "k_ji", "k_ya", "k_na", "k_i">>
KwEQ == <<"k_ga", "k_chi", "k_n", "k_ko">>
KwGT == <<"k_wo", "k_ko_eru", "k_e", "k_ta">>
KwLT == <<"k_ni", "k_oyo", "k_ba", "k_na", "k_i">>
\* the list with the shorter gachinko ahead of gachinko-janai
EXPR_KEYWORDS_ShortFirst ==
    << <<KwEQ, "EQ">>, <<KwNEQ, "NEQ">>, <<KwGT, "GT">>, <<KwLT, "LT">> >>

EXPR_KEYWORDS ==
    << <<KwNEQ, "NEQ">>, <<KwEQ, "EQ">>, <<KwGT, "GT">>, <<KwLT, "LT">> >>

\* The phrases of the line patterns, each written as one symbol (h_ for a
\* single hiragana): waga-na-ha, sonou, nigerunkai, hakkiri-itte..., omae-
\* shinuyo, da, ga, shoutai-wo-arawasuzo, jibuntachi-no..., runda, nani,
\* iya-chotto-mateyo, u, a, kakimoji, kindan-no, do-uchi, ha-ruuru-de-kinshi...,
\* wo-tsugu, shaa, wo-oshiete-kureyo, shinka-shita..., ai, no-komento
PStart == "p_waganaha"
PSonou == "p_sonou"
PEnd == "p_nigerunkai"
PThrow == "p_hakkiri"
POmae == "p_omaeshinuyo"
HDa == "h_da"
HGa == "h_ga"
PReveal == "p_shoutai"
PFn == "p_jibuntachi"
PRunda == "p_runda"
PIf == "p_nani"
PElif == "p_iya"
HU == "h_u"
HA == "h_a"
PKakimoji == "p_kakimoji"
PWhile == "p_kindan"
PTimes == "p_douchi"
PCatch == "p_kinshi"
PAssign == "p_wotsugu"
PPrint == "p_shaa"
PInput == "p_oshiete"
PIncrement == "p_shinka"
KAi == "k_ai"
PComment == "p_nokomento"
\* full-width parentheses and letters, the no-break space, the double quote
FwOpen == "U+FF08"
FwClose == "U+FF09"
FwP == "U+FF30"
FwC == "U+FF23"
Nbsp == "U+00A0"
DQuote == "\""

\* every one of them is kana or kanji, that is, inside \u3040-\u9fff
PhraseSymbols ==
    {PStart, PSonou, PEnd, PThrow, POmae, HDa, HGa, PReveal, PFn, PRunda, PIf,
     PElif, HU, HA, PKakimoji, PWhile, PTimes, PCatch, PAssign, PPrint, PInput,
     PIncrement, KAi, PComment}

\* the character classes of the code, over the characters used here
IsSpace(c) == c \in {" ", "\t", WideSpace}
\* \d
Decimals == {"0", "1", "2", "3", "4", "5", "6", "7", "8", "9"}
IsDecimal(c) == c \in Decimals
\* str.isdigit() also holds for digits that \d does not match
IsDigit(c) == IsDecimal(c) \/ c = SuperTwo
\* [a-zA-Z_\u3040-\u9fff] and [a-zA-Z0-9_\u3040-\u9fff]
IdentStarts ==
    {"a", "b", "x", "y", "z", "A", "_"}
        \cup {KwNEQ[i] : i \in 1..Len(KwNEQ)}
        \cup {KwGT[i] : i \in 1..Len(KwGT)}
        \cup {KwLT[i] : i \in 1..Len(KwLT)}
        \cup PhraseSymbols
IdentParts == IdentStarts \cup Decimals
IsIdentStart(c) == c \in IdentStarts

\* expr[i] and expr[i:j]
CharAt(e, i) == e[i + 1]
Slice(e, i, j) == SubSeq(e, i + 1, j)

\* expr[p:].startswith(kw)
StartsWith(e, p, kw) ==
    p + Len(kw) <= Len(e) /\ Slice(e, p, p + Len(kw)) = kw

\* the first keyword of the list the rest of the expression starts with,
\* 0 when there is none
KeywordAt(e, p) ==
    LET hits == {i \in 1..Len(EXPR_KEYWORDS) :
                    StartsWith(e, p, EXPR_KEYWORDS[i][1])}
    IN  IF hits = {} THEN 0
        ELSE CHOOSE i \in hits : \A j \in hits : i <= j

\* expr.index(c, p): the first position from p on that holds c, -1 standing
\* for the ValueError
IndexFrom(e, c, p) ==
    LET hits == {i \in p..(Len(e) - 1) : CharAt(e, i) = c}
    IN  IF hits = {} THEN -1
        ELSE CHOOSE i \in hits : \A j \in hits : i <= j

\* the end of the longest run from p on of characters of the set cs
RECURSIVE RunEnd(_, _, _)
RunEnd(e, p, cs) ==
    IF p < Len(e) /\ CharAt(e, p) \in cs THEN RunEnd(e, p + 1, cs) ELSE p

\* the end of the match of -?\d+(\.\d+)? at p, -1 when it does not match
NumberEnd(e, p) ==
    LET s == IF CharAt(e, p) = "-" THEN p + 1 ELSE p
        d == RunEnd(e, s, Decimals)
        f == IF d + 1 < Len(e) /\ CharAt(e, d) = "." /\ IsDecimal(CharAt(e, d + 1))
             THEN RunEnd(e, d + 1, Decimals) ELSE d
    IN  IF d = s THEN -1 ELSE f

NumberStarts(e, p) ==
    \/ IsDigit(CharAt(e, p))
    \/ CharAt(e, p) = "-" /\ p + 1 < Len(e) /\ IsDigit(CharAt(e, p + 1))

\* the number branch is taken and its regular expression matches
AtNumber(e, p) == NumberStarts(e, p) /\ NumberEnd(e, p) # -1

Lexing ==
    /\ status = "lex"
    /\ pos < Len(expr)

\* the turn reaches the tests after the keyword loop
PastKeywords ==
    /\ Lexing
    /\ ~IsSpace(CharAt(expr, pos))
    /\ KeywordAt(expr, pos) = 0

\* the turn reaches the tests after the number branch
PastNumber ==
    /\ PastKeywords
    /\ CharAt(expr, pos) # OpenQuote
    /\ ~AtNumber(expr, pos)

Emit(tok, p) ==
    /\ tokens' = Append(tokens, tok)
    /\ pos' = p
    /\ UNCHANGED <<status, errLine>>

LexFixed == UNCHANGED <<expr, line_num, program, work, module, builder,
                        variables, functions, string_counter, runVars,
                        emitted, frontVars>>

LexSkipSpace ==
    /\ Lexing
    /\ IsSpace(CharAt(expr, pos))
    /\ pos' = pos + 1
    /\ UNCHANGED <<tokens, status, errLine>>
    /\ LexFixed

LexKeyword ==
    /\ Lexing
    /\ ~IsSpace(CharAt(expr, pos))
    /\ KeywordAt(expr, pos) # 0
    /\ LET kw == EXPR_KEYWORDS[KeywordAt(expr, pos)]
       IN  Emit(Token(kw[2], kw[1], line_num), pos + Len(kw[1]))
    /\ LexFixed

\* `end = expr.index(CloseQuote, pos + 1)`: str.index raises ValueError when the
\* character is not found
LexString ==
    /\ PastKeywords
    /\ CharAt(expr, pos) = OpenQuote
    /\ LET end == IndexFrom(expr, CloseQuote, pos + 1)
       IN  IF end = -1
           THEN /\ status' = "ValueError"
                /\ errLine' = 0
                /\ UNCHANGED <<tokens, pos>>
           ELSE Emit(Token("STRING", Slice(expr, pos + 1, end), line_num),
                     end + 1)
    /\ LexFixed

LexNumber ==
    /\ PastKeywords
    /\ CharAt(expr, pos) # OpenQuote
    /\ AtNumber(expr, pos)
    /\ LET end == NumberEnd(expr, pos)
           val == Slice(expr, pos, end)
       IN  Emit(Token(IF \E i \in 1..Len(val) : val[i] = "." THEN "FLOAT"
                      ELSE "INT", val, line_num), end)
    /\ LexFixed

LexPercent ==
    /\ PastNumber
    /\ CharAt(expr, pos) = "%"
    /\ Emit(Token("PERCENT", <<"%">>, line_num), pos + 1)
    /\ LexFixed

LexParen ==
    /\ PastNumber
    /\ CharAt(expr, pos) \in {"(", ")"}
    /\ Emit(Token(IF CharAt(expr, pos) = "(" THEN "LPAREN" ELSE "RPAREN",
                  <<CharAt(expr, pos)>>, line_num), pos + 1)
    /\ LexFixed

LexIdent ==
    /\ PastNumber
    /\ IsIdentStart(CharAt(expr, pos))
    /\ LET end == RunEnd(expr, pos + 1, IdentParts)
       IN  Emit(Token("IDENT", Slice(expr, pos, end), line_num), end)
    /\ LexFixed

\* the last line of the loop body: raise LexerError(..., line_num)
LexUnknown ==
    /\ PastNumber
    /\ CharAt(expr, pos) \notin {"%", "(", ")"}
    /\ ~IsIdentStart(CharAt(expr, pos))
    /\ status' = "LexerError"
    /\ errLine' = line_num
    /\ UNCHANGED <<tokens, pos>>
    /\ LexFixed

\* the loop ends: _tokenize_expr returns
LexReturn ==
    /\ status = "lex"
    /\ pos >= Len(expr)
    /\ status' = "lexed"
    /\ UNCHANGED <<tokens, pos, errLine>>
    /\ LexFixed

MaxPieces == 3

\* what the expressions are put together from
Pieces ==
    { <<OpenQuote>>, <<CloseQuote>>, <<"a">>, <<"1">>, <<" ">>, <<"!">>, <<"%">>, <<"(">>,
      <<")">>, <<"-">>, <<".">>, <<SuperTwo>>, KwEQ, <<"k_ji", "k_ya", "k_na", "k_i">>,
      KwGT, KwLT }

RECURSIVE Flatten(_)
Flatten(ps) == IF ps = <<>> THEN <<>> ELSE Head(ps) \o Flatten(Tail(ps))

Exprs == { Flatten(ps) : ps \in SeqsUpTo(Pieces, MaxPieces) }
LineNums == {1, 3}

\* _tokenize_expr(expr, line_num) is entered
InitLex ==
    /\ expr \in Exprs
    /\ line_num \in LineNums
    /\ pos = 0
    /\ tokens = <<>>
    /\ status = "lex"
    /\ errLine = 0
    /\ program = <<>>
    /\ work = <<>>
    /\ module = EmptyModule
    /\ builder = NoBuilder
    /\ variables = NoVars
    /\ functions = [n \in {} |-> 0]
    /\ string_counter = 0
    /\ NotRunning
    /\ emitted = <<>>
    /\ NoSource

NextLex ==
    \/ LexSkipSpace
    \/ LexKeyword
    \/ LexString
    \/ LexNumber
    \/ LexPercent
    \/ LexParen
    \/ LexIdent
    \/ LexUnknown
    \/ LexReturn

SpecLex == InitLex /\ [][NextLex]_vars

----------------------------------------------------------------------------
(* A driver that compiles one source after another (emit_ir called again,   *)
(* on the same Compiler or on a new one: a Compiler has no fields).  The    *)
(* previous generator's fields stay where they are until compile_source     *)
(* constructs the next generator.                                           *)

MaxCompiles == 3

TwicePrograms ==
    { Numbered(p) : p \in
        { << PrintStatement(StringLiteral("s", 0), 0), PrintStatement(X, 0) >>,
          << ProgramStart(0), DeclareStatement("x", 0), InputStatement("x", 0),
             IfStatement(X, <<PrintStatement(StringLiteral("a", 0), 0)>>,
                         << <<XLt3, <<IncrementStatement("x", 0)>> >> >>,
                         <<DecrementStatement("x", 0)>>, 0),
             ProgramEnd(0) >>,
          << AssignStatement("x", IntLiteral(1, 0), 0),
             WhileStatement(XLt3, <<IncrementStatement("x", 0),
                                    PrintStatement(X, 0)>>, 0),
             ThrowStatement(0) >>,
          << FnStatement("f", <<"y">>, <<PrintStatement(Y, 0)>>, 0),
             PrintStatement(StringLiteral("s", 0), 0) >>,
          << Comment(0), PrintStatement(StringLiteral("s", 0), 0),
             PrintStatement(StringLiteral("t", 0), 0) >> } }

Compiled == status \notin {"idle", "gen"}

\* what emit_ir gave its caller: the module's text, or the exception
Result ==
    [source |-> program, status |-> status, line |-> errLine,
     ir |-> IF status = "done" THEN module ELSE EmptyModule]

\* the caller takes the result and calls emit_ir with the next source
CompileAgain ==
    /\ Compiled
    /\ Len(emitted) + 1 < MaxCompiles
    /\ emitted' = Append(emitted, Result)
    /\ program' \in TwicePrograms
    /\ status' = "idle"
    /\ UNCHANGED <<work, module, builder, variables, functions,
                   string_counter, errLine, runVars, lexVars, frontVars>>

InitTwice == InitOf(TwicePrograms)

NextTwice ==
    \/ Next
    \/ CompileAgain

SpecTwice == InitTwice /\ [][NextTwice]_vars

----------------------------------------------------------------------------
(* What the IR verifier requires of an emitted module.                      *)

BlockEndsInOneTerminator(b) ==
    /\ Len(b.instrs) > 0
    /\ IsTerminatorOp(b.instrs[Len(b.instrs)].op)
    /\ \A i \in 1..(Len(b.instrs) - 1) : ~IsTerminatorOp(b.instrs[i].op)

AllBlocksTerminated(m) ==
    \A f \in 1..Len(m.funcs) :
        \A b \in 1..Len(m.funcs[f].blocks) :
            BlockEndsInOneTerminator(m.funcs[f].blocks[b])

ReturnsMatch(m) ==
    \A f \in 1..Len(m.funcs) :
        \A b \in 1..Len(m.funcs[f].blocks) :
            \A i \in 1..Len(m.funcs[f].blocks[b].instrs) :
                LET ins == m.funcs[f].blocks[b].instrs[i]
                IN  ins.op = "ret" => ins.x.t = m.funcs[f].ret

\* branch targets of a block
Successors(F, b) ==
    UNION { IF F.blocks[b].instrs[i].op = "br"
            THEN {F.blocks[b].instrs[i].t1}
            ELSE IF F.blocks[b].instrs[i].op = "cbr"
            THEN {F.blocks[b].instrs[i].t1, F.blocks[b].instrs[i].t2}
            ELSE {} : i \in 1..Len(F.blocks[b].instrs) }

\* blocks reachable from the entry block on paths that avoid block `avoid`
RECURSIVE ReachAvoiding(_, _, _, _)
ReachAvoiding(F, seen, frontier, avoid) ==
    IF frontier = {} THEN seen
    ELSE LET nxt == (UNION {Successors(F, b) : b \in frontier})
                        \ (seen \cup frontier \cup {avoid})
         IN  ReachAvoiding(F, seen \cup frontier, nxt, avoid)

ReachableAvoiding(F, avoid) ==
    IF avoid = 1 THEN {} ELSE ReachAvoiding(F, {}, {1}, avoid)

\* the slot pointers an instruction uses
SlotsUsed(ins) ==
    {v.v : v \in {w \in {ins.x, ins.y} : w.k = "reg" /\ w.t = PtrI64}}

\* every use of a slot is dominated by the slot's alloca
SlotsAllocatedBeforeUse(F) ==
    \A b \in 1..Len(F.blocks) :
        \A i \in 1..Len(F.blocks[b].instrs) :
            \A r \in SlotsUsed(F.blocks[b].instrs[i]) :
                \E db \in 1..Len(F.blocks) :
                    \E di \in 1..Len(F.blocks[db].instrs) :
                        /\ F.blocks[db].instrs[di].op = "alloca"
                        /\ F.blocks[db].instrs[di].dst = r
                        /\ IF db = b THEN di < i
                           ELSE b \notin ReachableAvoiding(F, db)

Verified(m) ==
    /\ AllBlocksTerminated(m)
    /\ ReturnsMatch(m)
    /\ \A f \in 1..Len(m.funcs) : SlotsAllocatedBeforeUse(m.funcs[f])

----------------------------------------------------------------------------
(* Compiler.run: the emitted module is printed, parsed and verified, and    *)
(* its main is run by the JIT engine.  The run is modelled one instruction  *)
(* at a time; values are unbounded integers (the programs run here stay far *)
(* from the 64-bit limits).                                                 *)

MaxSteps == 64

\* values scanf may read
InputVals == {0, 2, 5}
\* what a load of a slot nothing was stored to, or an srem without a
\* defined result, may produce
UndefVals == {0, 1}

\* parse_assembly: the two operands of a comparison or of an arithmetic
\* instruction are printed with one type, so they must have the same type
OperandTypesAgree(m) ==
    \A f \in 1..Len(m.funcs) :
        \A b \in 1..Len(m.funcs[f].blocks) :
            \A i \in 1..Len(m.funcs[f].blocks[b].instrs) :
                LET ins == m.funcs[f].blocks[b].instrs[i]
                IN  ins.op \in {"icmp", "add", "sub", "srem"}
                        => ins.x.t = ins.y.t /\ ins.x.t \in {I64, I1}

Accepted(m) == Verified(m) /\ OperandTypesAgree(m)

MainFunc == module.funcs[functions["main"]]
CurInstr == MainFunc.blocks[pc.blk].instrs[pc.idx]

Operand(v) == IF v.k = "const" THEN v.v ELSE regs[v.v]

SetReg(d, n) ==
    [r \in (DOMAIN regs) \cup {d} |-> IF r = d THEN n ELSE regs[r]]

GlobalText(n) ==
    LET g == CHOOSE h \in {module.globals[i] : i \in 1..Len(module.globals)} :
                 h.n = n
    IN  g.text

PrintedInt(n) == [k |-> "int", n |-> n, s |-> ""]
PrintedStr(t) == [k |-> "str", n |-> 0, s |-> t]
ReadOk(v) == [ok |-> TRUE, v |-> v]
ReadEOF == [ok |-> FALSE, v |-> 0]

Abs(n) == IF n < 0 THEN -n ELSE n
\* srem: the remainder has the sign of the dividend
SRem(a, b) == IF a < 0 THEN -((-a) % Abs(b)) ELSE a % Abs(b)

ICmp(pred, a, b) ==
    LET r == CASE pred = "==" -> a = b
               [] pred = "!=" -> a # b
               [] pred = ">" -> a > b
               [] pred = "<" -> a < b
    IN  IF r THEN 1 ELSE 0

At(ops) ==
    /\ status = "running"
    /\ steps < MaxSteps
    /\ CurInstr.op \in ops

AtCall(callee) == At({"call"}) /\ CurInstr.s = callee

Advance ==
    /\ pc' = [pc EXCEPT !.idx = @ + 1]
    /\ steps' = steps + 1

\* run() up to the call of main: RuntimeError when the IR text does not
\* parse or verify
RunStart ==
    /\ status = "done"
    /\ IF Accepted(module)
       THEN /\ status' = "running"
            /\ pc' = [blk |-> 1, idx |-> 1]
            /\ trace' = <<MainFunc.blocks[1].label>>
       ELSE /\ status' = "RuntimeError"
            /\ UNCHANGED <<pc, trace>>
    /\ UNCHANGED <<lexVars, frontVars, emitted, genVars, regs, mem, output, stdin, exitCode, steps>>

ExecAlloca ==
    /\ At({"alloca"})
    /\ mem' = Append(mem, [init |-> FALSE, v |-> 0])
    /\ regs' = SetReg(CurInstr.dst, Len(mem) + 1)
    /\ Advance
    /\ UNCHANGED <<lexVars, frontVars, emitted, genVars, status, output, stdin, trace, exitCode>>

ExecStore ==
    /\ At({"store"})
    /\ mem' = [mem EXCEPT ![Operand(CurInstr.y)] =
                   [init |-> TRUE, v |-> Operand(CurInstr.x)]]
    /\ Advance
    /\ UNCHANGED <<lexVars, frontVars, emitted, genVars, status, regs, output, stdin, trace, exitCode>>

ExecLoad ==
    /\ At({"load"})
    /\ LET cell == mem[Operand(CurInstr.x)]
       IN  IF cell.init THEN regs' = SetReg(CurInstr.dst, cell.v)
           ELSE \E u \in UndefVals : regs' = SetReg(CurInstr.dst, u)
    /\ Advance
    /\ UNCHANGED <<lexVars, frontVars, emitted, genVars, status, mem, output, stdin, trace, exitCode>>

\* add, sub, icmp, zext i1 -> i64, gep (the address of a global string)
ExecCompute ==
    /\ At({"add", "sub", "icmp", "zext", "gep"})
    /\ LET ins == CurInstr
           r == CASE ins.op = "add" -> Operand(ins.x) + Operand(ins.y)
                  [] ins.op = "sub" -> Operand(ins.x) - Operand(ins.y)
                  [] ins.op = "icmp" ->
                        ICmp(ins.s, Operand(ins.x), Operand(ins.y))
                  [] ins.op = "zext" -> Operand(ins.x)
                  [] ins.op = "gep" -> ins.x.v
       IN  regs' = SetReg(ins.dst, r)
    /\ Advance
    /\ UNCHANGED <<lexVars, frontVars, emitted, genVars, status, mem, output, stdin, trace, exitCode>>

\* srem by zero has no defined result: the process is killed by the
\* arithmetic trap or goes on with some value
ExecSRem ==
    /\ At({"srem"})
    /\ LET a == Operand(CurInstr.x)
           b == Operand(CurInstr.y)
       IN  IF b # 0
           THEN /\ regs' = SetReg(CurInstr.dst, SRem(a, b))
                /\ Advance
                /\ UNCHANGED status
           ELSE \/ /\ status' = "SIGFPE"
                   /\ UNCHANGED <<pc, regs, steps>>
                \/ /\ \E u \in UndefVals : regs' = SetReg(CurInstr.dst, u)
                   /\ Advance
                   /\ UNCHANGED status
    /\ UNCHANGED <<lexVars, frontVars, emitted, genVars, mem, output, stdin, trace, exitCode>>

\* printf("%lld\n", value) and printf("%s\n", text)
ExecPrintf ==
    /\ AtCall("printf")
    /\ LET fmt == GlobalText(Operand(CurInstr.x))
       IN  output' = Append(output,
                IF fmt = "%s\n" THEN PrintedStr(GlobalText(Operand(CurInstr.y)))
                ELSE PrintedInt(Operand(CurInstr.y)))
    /\ regs' = SetReg(CurInstr.dst, 0)
    /\ Advance
    /\ UNCHANGED <<lexVars, frontVars, emitted, genVars, status, mem, stdin, trace, exitCode>>

\* scanf("%lld", slot): a value is read and stored, or the input has ended
\* and the slot is left as it was
ExecScanf ==
    /\ AtCall("scanf")
    /\ \/ \E v \in InputVals :
            /\ mem' = [mem EXCEPT ![Operand(CurInstr.y)] =
                           [init |-> TRUE, v |-> v]]
            /\ stdin' = Append(stdin, ReadOk(v))
            /\ regs' = SetReg(CurInstr.dst, 1)
       \/ /\ stdin' = Append(stdin, ReadEOF)
          /\ regs' = SetReg(CurInstr.dst, -1)
          /\ UNCHANGED mem
    /\ Advance
    /\ UNCHANGED <<lexVars, frontVars, emitted, genVars, status, output, trace, exitCode>>

\* exit(code) ends the process
ExecExit ==
    /\ AtCall("exit")
    /\ status' = "exited"
    /\ exitCode' = Operand(CurInstr.x)
    /\ steps' = steps + 1
    /\ UNCHANGED <<lexVars, frontVars, emitted, genVars, pc, regs, mem, output, stdin, trace>>

ExecBranch ==
    /\ At({"br", "cbr"})
    /\ LET t == IF CurInstr.op = "br" \/ Operand(CurInstr.x) # 0
                THEN CurInstr.t1 ELSE CurInstr.t2
       IN  /\ pc' = [blk |-> t, idx |-> 1]
           /\ trace' = Append(trace, MainFunc.blocks[t].label)
    /\ steps' = steps + 1
    /\ UNCHANGED <<lexVars, frontVars, emitted, genVars, status, regs, mem, output, stdin, exitCode>>

\* main returns: run() returns its result
ExecRet ==
    /\ At({"ret"})
    /\ status' = "returned"
    /\ exitCode' = Operand(CurInstr.x)
    /\ steps' = steps + 1
    /\ UNCHANGED <<lexVars, frontVars, emitted, genVars, pc, regs, mem, output, stdin, trace>>

----------------------------------------------------------------------------
(* The programs that are run: a setup giving x a value, one if or while     *)
(* statement over x whose bodies print a mark of their own, and a final     *)
(* print of x.                                                              *)

MaxElifs == 2

XMod2 == BinaryOp("%", X, IntLiteral(2, 0), 0)
RunConds == {X, XLt3, XMod2}

Mark(n) == PrintStatement(IntLiteral(n, 0), 0)

RunSetups ==
    { <<DeclareStatement("x", 0)>>, <<InputStatement("x", 0)>> }
    \cup { <<AssignStatement("x", IntLiteral(v, 0), 0)>> : v \in {2, 5} }

\* the body of a branch: its mark, then ProgramEnd or Throw when it halts
BranchBody(n, halt) ==
    <<Mark(n)>> \o (IF halt = "end" THEN <<ProgramEnd(0)>>
                    ELSE IF halt = "throw" THEN <<ThrowStatement(0)>>
                    ELSE <<>>)

ElifClauses(cs, halt) ==
    [i \in 1..Len(cs) |-> <<cs[i], BranchBody(10 + i, halt)>>]

RunIfs ==
    { IfStatement(c, BranchBody(10, h[1]), ElifClauses(cs, h[2]), el, 0) :
        c \in RunConds, cs \in SeqsUpTo(RunConds, MaxElifs),
        el \in {<<>>, <<Mark(99)>>},
        h \in {<<"", "">>, <<"end", "">>, <<"", "throw">>} }

RunWhileBodies ==
    { <<IncrementStatement("x", 0)>>,
      <<DecrementStatement("x", 0)>>,
      <<Mark(20), IncrementStatement("x", 0)>>,
      <<Mark(20), ProgramEnd(0)>>,
      <<IncrementStatement("x", 0),
        IfStatement(XMod2, <<Mark(21)>>, <<>>, <<Mark(22)>>, 0)>>,
      <<IfStatement(XMod2, <<ThrowStatement(0)>>, <<>>, <<>>, 0),
        IncrementStatement("x", 0)>>,
      <<WhileStatement(XMod2, <<IncrementStatement("x", 0)>>, 0),
        IncrementStatement("x", 0)>> }

RunWhiles == { WhileStatement(c, b, 0) : c \in {X, XLt3}, b \in RunWhileBodies }

\* x = 0; while (x < 3) { x++ }
CounterLoop ==
    << AssignStatement("x", IntLiteral(0, 0), 0),
       WhileStatement(XLt3, <<IncrementStatement("x", 0)>>, 0) >>

RunOthers ==
    { CounterLoop,
      << ProgramStart(0), Comment(0),
         FnStatement("f", <<"y">>, <<PrintStatement(Y, 0)>>, 0),
         DeclareStatement("x", 0), PrintStatement(StringLiteral("s", 0), 0),
         ProgramEnd(0) >>,
      << ProgramEnd(0), DeclareStatement("x", 0) >>,
      << DeclareStatement("x", 0),
         PrintStatement(BinaryOp("%", IntLiteral(5, 0), X, 0), 0) >>,
      << InputStatement("x", 0), InputStatement("x", 0),
         PrintStatement(BinaryOp("%", IntLiteral(5, 0), X, 0), 0) >> }

\* x op b for every operator, the bare variable, and a comparison of a
\* comparison
TruthConds ==
    { BinaryOp(o, X, IntLiteral(b, 0), 0) :
        o \in CmpOps \cup {"%"}, b \in {-2, 0, 2} }
    \cup { X, BinaryOp("==", XLt3, IntLiteral(1, 0), 0),
           BinaryOp("<", XMod2, IntLiteral(0, 0), 0) }

\* x = a, then the value of a condition printed, or an if or a while over
\* it whose bodies print a mark of their own
TruthPrograms ==
    { <<AssignStatement("x", IntLiteral(a, 0), 0), st>> :
        a \in {-5, 0, 2},
        st \in UNION { { PrintStatement(c, 0),
                         IfStatement(c, <<Mark(10)>>, <<>>, <<Mark(99)>>, 0),
                         WhileStatement(c, <<Mark(20), ProgramEnd(0)>>, 0) } :
                       c \in TruthConds } }

RunPrograms ==
    { Numbered(s \o <<c>> \o <<PrintStatement(X, 0)>>) :
        s \in RunSetups, c \in RunIfs \cup RunWhiles }
    \cup { Numbered(p) : p \in RunOthers \cup TruthPrograms }

InitRun == InitOf(RunPrograms)

NextRun ==
    \/ Next
    \/ RunStart
    \/ ExecAlloca
    \/ ExecStore
    \/ ExecLoad
    \/ ExecCompute
    \/ ExecSRem
    \/ ExecPrintf
    \/ ExecScanf
    \/ ExecExit
    \/ ExecBranch
    \/ ExecRet

SpecRun == InitRun /\ [][NextRun]_vars

----------------------------------------------------------------------------
(* Claims about the code generator.                                         *)

\* C1: when generate finishes, every basic block of every emitted function
\* ends with a terminator: exactly one terminator, as its last instruction.
C1_EveryBlockEndsInTerminator ==
    status = "done" => AllBlocksTerminated(module)

\* C2: the module returned for a program whose code generation raises no
\* error is accepted by the IR verifier: blocks terminated once at their
\* end, returns of the function's type, slots allocated before every use.
C2_EmittedModuleVerifies ==
    status = "done" => Verified(module)

Range(sq) == {sq[i] : i \in 1..Len(sq)}

RECURSIVE ReadNames(_)
ReadNames(e) ==
    IF e.k = "Identifier" THEN {e.name}
    ELSE IF e.k = "BinaryOp" THEN ReadNames(e.left) \cup ReadNames(e.right)
    ELSE {}

\* the next handler lowers an expression before anything that can fail
LowersExpr ==
    \/ AtStmt({"AssignStatement", "PrintStatement", "IfStatement"})
    \/ AtFrame("elif")
    \/ AtStmt({"WhileStatement"}) /\ ~CurBlock(Cur).terminated

NextExpr ==
    IF Head(work).k = "elif" THEN Head(work).cond
    ELSE IF CurStmt.k \in {"IfStatement", "WhileStatement"}
    THEN CurStmt.condition
    ELSE CurStmt.value

\* lowering a read of a name that is not in the variable table raises
\* CodeGenError with the identifier's line
UnknownReadRaises ==
    (LowersExpr /\ ~(ReadNames(NextExpr) \subseteq DOMAIN variables))
        => (status' = "CodeGenError" /\ errLine' = NextExpr.line)

\* names enter the variable table only through statements of the given
\* kinds; a function body starts from its parameters and the enclosing
\* table comes back when the function ends
TableGrowsOnlyBy(kinds) ==
    (status = "gen" /\ work # <<>>) =>
        IF AtStmt({"FnStatement"})
        THEN status' = "gen" => DOMAIN variables' = Range(CurStmt.params)
        ELSE IF AtFrame("fnexit")
        THEN DOMAIN variables' = DOMAIN Head(work).saved_vars
        ELSE (DOMAIN variables') \ (DOMAIN variables)
                \subseteq (IF AtStmt(kinds) THEN {CurStmt.name} ELSE {})

\* C3 as stated: a read of a name not preceded, in the current function, by
\* a declaration, a first assignment or a parameter binding raises
\* CodeGenError with the identifier's line, and no other statement kind
\* makes a name readable.
C3_OnlyDeclareAssignParamReadable ==
    /\ [][UnknownReadRaises]_vars
    /\ [][TableGrowsOnlyBy({"DeclareStatement", "AssignStatement"})]_vars

\* C3 amended: Input makes a name readable too; a lowered read of a name not
\* preceded, in the current function, by a declaration, a first assignment,
\* an Input or a parameter binding raises CodeGenError with the identifier's
\* line, and no other statement kind makes a name readable.
C3_UnknownReadRaisesCodeGenError ==
    /\ [][UnknownReadRaises]_vars
    /\ [][TableGrowsOnlyBy({"DeclareStatement", "AssignStatement",
                            "InputStatement"})]_vars

\* an Input made x readable (the if condition reads it) and the read of y,
\* which nothing introduced, was refused with its line
C3_Witness ==
    /\ status = "CodeGenError"
    /\ Len(program) = 2
    /\ program[1].k = "InputStatement"
    /\ program[2].k = "IfStatement"
    /\ ReadNames(program[2].condition) = {program[1].name}
    /\ program[2].then_body[1].k = "PrintStatement"
    /\ errLine = program[2].then_body[1].line
    /\ DOMAIN variables = {program[1].name}

\* C4: an Increment or Decrement of a name that is not in the variable
\* table when the statement is lowered raises CodeGenError (with the
\* statement's line), whatever follows it in the program, and Increment and
\* Decrement never add a name to the table.
C4_StepOfUnknownNameRaises ==
    [][AtStmt({"IncrementStatement", "DecrementStatement"}) =>
        /\ DOMAIN variables' = DOMAIN variables
        /\ CurStmt.name \notin DOMAIN variables =>
              (status' = "CodeGenError" /\ errLine' = CurStmt.line)]_vars

\* an Increment was refused although a later Declare, Assign or Input of the
\* program names the same variable
C4_Witness ==
    /\ status = "CodeGenError"
    /\ \E i \in 1..Len(program) : \E j \in (i + 1)..Len(program) :
        /\ program[i].k \in {"IncrementStatement", "DecrementStatement"}
        /\ errLine = program[i].line
        /\ program[j].k \in {"DeclareStatement", "AssignStatement",
                             "InputStatement"}
        /\ program[j].name = program[i].name

\* names a statement list adds to the table of the function it belongs to
\* (Declare, Assign, Input at any depth of if and while, not in nested Fn)
RECURSIVE IntroducedNames(_)
RECURSIVE IntroducedByElifs(_)
IntroducedBy(st) ==
    CASE st.k \in {"DeclareStatement", "AssignStatement", "InputStatement"} ->
            {st.name}
      [] st.k = "IfStatement" ->
            IntroducedNames(st.then_body) \cup IntroducedByElifs(st.elif_clauses)
                \cup IntroducedNames(st.else_body)
      [] st.k = "WhileStatement" -> IntroducedNames(st.body)
      [] OTHER -> {}

IntroducedNames(ss) ==
    IF ss = <<>> THEN {}
    ELSE IntroducedBy(Head(ss)) \cup IntroducedNames(Tail(ss))

IntroducedByElifs(cs) ==
    IF cs = <<>> THEN {}
    ELSE IntroducedNames(Head(cs)[2]) \cup IntroducedByElifs(Tail(cs))

\* every FnStatement of a statement list, nested ones included
RECURSIVE FnStmts(_)
RECURSIVE FnStmtsOfElifs(_)
FnStmtsOf(st) ==
    CASE st.k = "FnStatement" -> {st} \cup FnStmts(st.body)
      [] st.k = "IfStatement" ->
            FnStmts(st.then_body) \cup FnStmtsOfElifs(st.elif_clauses)
                \cup FnStmts(st.else_body)
      [] st.k = "WhileStatement" -> FnStmts(st.body)
      [] OTHER -> {}

FnStmts(ss) ==
    IF ss = <<>> THEN {} ELSE FnStmtsOf(Head(ss)) \cup FnStmts(Tail(ss))

FnStmtsOfElifs(cs) ==
    IF cs = <<>> THEN {}
    ELSE FnStmts(Head(cs)[2]) \cup FnStmtsOfElifs(Tail(cs))

InFunction == status = "gen" /\ builder.fn > 1

\* the table of the function enclosing the one being lowered
EnclosingVars ==
    LET i == CHOOSE j \in 1..Len(work) :
                /\ work[j].k = "fnexit"
                /\ \A l \in 1..(j - 1) : work[l].k # "fnexit"
    IN  work[i].saved_vars

\* the names the next handler reads, increments or decrements
UsedNames ==
    IF LowersExpr THEN ReadNames(NextExpr)
    ELSE IF AtStmt({"IncrementStatement", "DecrementStatement"})
    THEN {CurStmt.name}
    ELSE {}

FnTableIsLocal ==
    InFunction =>
        LET F == module.funcs[builder.fn]
        IN  /\ Range(F.args) \subseteq DOMAIN variables
            /\ \E fs \in FnStmts(program) :
                /\ fs.name = F.name
                /\ fs.params = F.args
                /\ DOMAIN variables
                     \subseteq Range(fs.params) \cup IntroducedNames(fs.body)

OuterOnlyUseRaises ==
    (InFunction /\ \E n \in UsedNames :
                        n \notin DOMAIN variables /\ n \in DOMAIN EnclosingVars)
        => status' = "CodeGenError"

\* C5: while a function body is lowered the variable table holds the
\* function's parameters and otherwise only names the body introduced; a
\* read, Increment or Decrement in the body of a name that only the
\* enclosing table holds raises CodeGenError.
C5_FunctionBodyHasFreshTable ==
    /\ []FnTableIsLocal
    /\ [][OuterOnlyUseRaises]_vars

\* inside a function body, about to increment a variable that only the
\* enclosing table holds
C5_Witness ==
    /\ InFunction
    /\ AtStmt({"IncrementStatement"})
    /\ CurStmt.name \notin DOMAIN variables
    /\ CurStmt.name \in DOMAIN EnclosingVars

\* entering a function keeps the caller's table and builder aside
FnEntrySaves ==
    (AtStmt({"FnStatement"}) /\ status' = "gen") =>
        \E i \in 1..Len(work') :
            /\ work'[i].k = "fnexit"
            /\ \A l \in 1..(i - 1) : work'[l].k # "fnexit"
            /\ work'[i].saved_vars = variables
            /\ work'[i].saved_builder = builder
            /\ SubSeq(work', i + 1, Len(work')) = Popped

\* leaving it brings both back and continues with the enclosing handler
FnExitRestores ==
    (AtFrame("fnexit") /\ status' = "gen") =>
        /\ variables' = Head(work).saved_vars
        /\ builder' = Head(work).saved_builder
        /\ work' = Tail(work)

\* what was kept aside is not touched while the body is lowered
SavedFramesKept ==
    (status = "gen" /\ status' = "gen" /\ ~AtFrame("fnexit")) =>
        \E n \in 0..Len(work') :
            /\ Len(work') - n <= Len(work)
            /\ SubSeq(work', n + 1, Len(work'))
                 = SubSeq(work, Len(work) - (Len(work') - n) + 1, Len(work))
            /\ LET pending == SubSeq(work, 1, Len(work) - (Len(work') - n))
               IN  \A l \in 1..Len(pending) : pending[l].k # "fnexit"

\* back in main the table holds exactly what main's statements introduced
MainTableIsMains ==
    /\ (status = "gen" /\ builder.fn = 1)
            => DOMAIN variables \subseteq IntroducedNames(program)
    /\ status = "done"
            => (builder.fn = 1 /\ DOMAIN variables = IntroducedNames(program))

\* C6: after a Fn statement is lowered the variable table is the one from
\* before the Fn (same names, same slots) and the builder is where it was,
\* in the enclosing function, for nested functions too.
C6_FnRestoresTableAndBuilder ==
    /\ [][FnEntrySaves]_vars
    /\ [][FnExitRestores]_vars
    /\ [][SavedFramesKept]_vars
    /\ []MainTableIsMains

\* a declaration, a function and an increment of the declared variable: the
\* increment was appended to main after the function was lowered
C6_Witness ==
    /\ status = "done"
    /\ Len(program) = 3
    /\ program[1].k = "DeclareStatement"
    /\ program[2].k = "FnStatement"
    /\ program[3].k = "IncrementStatement"
    /\ \E i \in 1..Len(module.funcs[1].blocks[1].instrs) :
            module.funcs[1].blocks[1].instrs[i].op = "add"
    /\ Len(module.funcs) >= 2

----------------------------------------------------------------------------
(* Claims about the code that runs.  What a program is meant to do is       *)
(* computed from its statements, given what scanf has read: the values      *)
(* printed and, in order, the kinds of block the run is to enter.           *)

\* an iteration runs three instructions or more (the comparison with 0 and
\* the two branches), so a run of MaxSteps instructions stays within this
\* many iterations
RefFuel == MaxSteps \div 3

RefStart(ins) ==
    [env |-> [n \in {} |-> 0], out |-> <<>>, labels |-> <<"entry">>,
     ins |-> ins, halted |-> FALSE, code |-> 0, fuel |-> RefFuel,
     waiting |-> FALSE, undef |-> FALSE]

RECURSIVE RefValue(_, _)
RefValue(e, env) ==
    CASE e.k = "IntLiteral" -> e.value
      [] e.k = "FloatLiteral" -> TruncTenths(e.tenths)
      [] e.k = "Identifier" -> env[e.name]
      [] e.k = "BinaryOp" ->
            IF e.op \in CmpOps
            THEN ICmp(e.op, RefValue(e.left, env), RefValue(e.right, env))
            ELSE SRem(RefValue(e.left, env), RefValue(e.right, env))

\* the expression has a value: its names hold one, no remainder by zero
RECURSIVE RefDefined(_, _)
RefDefined(e, env) ==
    CASE e.k = "Identifier" -> e.name \in DOMAIN env
      [] e.k = "BinaryOp" ->
            /\ RefDefined(e.left, env)
            /\ RefDefined(e.right, env)
            /\ e.op = "%" => RefValue(e.right, env) # 0
      [] OTHER -> TRUE

RefStuck(st) == st.halted \/ st.undef \/ st.waiting \/ st.fuel = 0
RefEnter(st, lbl) == [st EXCEPT !.labels = Append(@, lbl)]
RefUndef(st) == [st EXCEPT !.undef = TRUE]
RefSet(st, n, v) == [st EXCEPT !.env = SetVar(@, n, v)]
RefMerge(st) == IF RefStuck(st) THEN st ELSE RefEnter(st, "if.merge")

RECURSIVE RefStmts(_, _), RefStmt(_, _), RefElifs(_, _, _), RefWhile(_, _)
RefStmts(ss, st) ==
    IF ss = <<>> \/ RefStuck(st) THEN st
    ELSE RefStmts(Tail(ss), RefStmt(Head(ss), st))

RefStmt(s, st) ==
    CASE s.k \in {"ProgramStart", "Comment", "FnStatement"} -> st
      [] s.k = "ProgramEnd" -> [st EXCEPT !.halted = TRUE, !.code = 0]
      [] s.k = "ThrowStatement" -> [st EXCEPT !.halted = TRUE, !.code = 1]
      [] s.k = "DeclareStatement" -> RefSet(st, s.name, 0)
      [] s.k = "AssignStatement" ->
            IF RefDefined(s.value, st.env)
            THEN RefSet(st, s.name, RefValue(s.value, st.env))
            ELSE RefUndef(st)
      [] s.k = "PrintStatement" ->
            IF s.value.k = "StringLiteral"
            THEN [st EXCEPT !.out = Append(@, PrintedStr(s.value.text))]
            ELSE IF RefDefined(s.value, st.env)
            THEN [st EXCEPT !.out =
                     Append(@, PrintedInt(RefValue(s.value, st.env)))]
            ELSE RefUndef(st)
      [] s.k = "InputStatement" ->
            IF st.ins = <<>> THEN [st EXCEPT !.waiting = TRUE]
            ELSE LET r == Head(st.ins)
                     t == [st EXCEPT !.ins = Tail(@)]
                 IN  IF r.ok THEN RefSet(t, s.name, r.v) ELSE t
      [] s.k \in {"IncrementStatement", "DecrementStatement"} ->
            IF s.name \in DOMAIN st.env
            THEN RefSet(st, s.name,
                        IF s.k = "IncrementStatement"
                        THEN st.env[s.name] + 1 ELSE st.env[s.name] - 1)
            ELSE RefUndef(st)
      [] s.k = "IfStatement" ->
            IF ~RefDefined(s.condition, st.env) THEN RefUndef(st)
            ELSE IF RefValue(s.condition, st.env) # 0
            THEN RefMerge(RefStmts(s.then_body, RefEnter(st, "if.then")))
            ELSE RefElifs(s, 1, st)
      [] s.k = "WhileStatement" -> RefWhile(s, RefEnter(st, "while.cond"))

\* the elif clauses from the i-th on, then the else body, then merge
RefElifs(s, i, st) ==
    IF i > Len(s.elif_clauses)
    THEN IF s.else_body # <<>>
         THEN RefMerge(RefStmts(s.else_body, RefEnter(st, "if.else")))
         ELSE RefEnter(st, "if.merge")
    ELSE LET c == s.elif_clauses[i][1]
             t == RefEnter(st, ElifCondLabel(i))
         IN  IF ~RefDefined(c, t.env) THEN RefUndef(t)
             ELSE IF RefValue(c, t.env) # 0
             THEN RefMerge(RefStmts(s.elif_clauses[i][2],
                                    RefEnter(t, ElifBodyLabel(i))))
             ELSE RefElifs(s, i + 1, t)

\* the loop from an evaluation of its condition on
RefWhile(s, st) ==
    IF st.fuel = 0 THEN st
    ELSE IF ~RefDefined(s.condition, st.env) THEN RefUndef(st)
    ELSE IF RefValue(s.condition, st.env) = 0 THEN RefEnter(st, "while.merge")
    ELSE LET b == RefStmts(s.body,
                           RefEnter([st EXCEPT !.fuel = @ - 1], "while.body"))
         IN  IF RefStuck(b) THEN b
             ELSE RefWhile(s, RefEnter(b, "while.cond"))

RefRun == RefStmts(program, RefStart(stdin))

Started == status \in {"running", "exited", "returned"}
Ended == status \in {"exited", "returned"}

IsPrefix(s, t) == Len(s) <= Len(t) /\ s = SubSeq(t, 1, Len(s))

IsWhileLabel(l) == l \in {"while.cond", "while.body", "while.merge"}
IsIfLabel(l) == l # "entry" /\ ~IsWhileLabel(l)

\* C9: the run of an if statement enters the then block when the condition
\* is nonzero, otherwise the condition blocks of the elif clauses in order
\* up to the first nonzero one and that clause's body, otherwise the else
\* block when there is one; no later elif condition block is entered; and
\* it enters merge next unless the body ended the program.  At most one
\* body's mark is printed.
C9_IfRunsFirstTrueBranch ==
    Started =>
        LET R == RefRun
        IN  ~R.undef =>
              /\ IsPrefix(SelectSeq(trace, IsIfLabel),
                          SelectSeq(R.labels, IsIfLabel))
              /\ IsPrefix(output, R.out)
              /\ Ended => /\ SelectSeq(trace, IsIfLabel)
                                = SelectSeq(R.labels, IsIfLabel)
                          /\ output = R.out

\* an if with two elif clauses: both the if condition and the first elif
\* condition were 0, the second elif's body ran, and the run went on at merge
C9_Witness ==
    /\ status = "returned"
    /\ trace = <<"entry", "elif.cond.0", "elif.cond.1", "elif.body.1",
                 "if.merge">>
    /\ Len(output) = 2
    /\ output[1] = PrintedInt(12)

\* C10: the run of a while statement evaluates the condition before every
\* iteration, enters the body once for each nonzero evaluation, returns to
\* the condition block after a body that did not end the program, and
\* enters merge at the first evaluation to 0; in the counter loop x holds 3
\* at merge.
C10_WhileRunsUntilConditionIsZero ==
    /\ Started =>
        LET R == RefRun
        IN  ~R.undef =>
              /\ IsPrefix(SelectSeq(trace, IsWhileLabel),
                          SelectSeq(R.labels, IsWhileLabel))
              /\ Ended => /\ SelectSeq(trace, IsWhileLabel)
                                = SelectSeq(R.labels, IsWhileLabel)
                          /\ exitCode = R.code
    /\ ( /\ program = Numbered(CounterLoop)
         /\ status = "running"
         /\ MainFunc.blocks[pc.blk].label = "while.merge" )
        => mem[regs[variables["x"].v]] = [init |-> TRUE, v |-> 3]

\* the counter loop has run its body three times and returned
C10_Witness ==
    /\ program = Numbered(CounterLoop)
    /\ status = "returned"
    /\ trace = <<"entry", "while.cond", "while.body", "while.cond",
                 "while.body", "while.cond", "while.body", "while.cond",
                 "while.merge">>
    /\ mem[regs[variables["x"].v]].v = 3

----------------------------------------------------------------------------
(* Claims about the driver.                                                 *)

\* the results so far, the one just produced included
Results == emitted \o (IF Compiled THEN <<Result>> ELSE <<>>)

\* C7: compiling a source again, whatever was compiled in between, gives
\* the same result: the same IR text, string constants numbered alike, or
\* the same error; within every compilation the string counter is the
\* number of string constants that compilation has created, so it started
\* at 0.
C7_CompilationIsDeterministic ==
    /\ \A i, j \in 1..Len(Results) :
          Results[i].source = Results[j].source => Results[i] = Results[j]
    /\ status \in {"gen", "done"} => string_counter = Len(module.globals)

\* the same source compiled first and third, a different one in between,
\* each module with string constants
C7_Witness ==
    /\ Len(Results) = 3
    /\ Results[1].source = Results[3].source
    /\ Results[1].source # Results[2].source
    /\ Results[1].status = "done"
    /\ Results[2].status = "done"
    /\ Len(Results[1].ir.globals) >= 2
    /\ Results[2].ir.globals # <<>>

----------------------------------------------------------------------------
(* Claims about the lexer.                                                  *)

\* the loop is at an opening quote that no closing quote follows
AtUnterminatedString ==
    /\ PastKeywords
    /\ CharAt(expr, pos) = OpenQuote
    /\ IndexFrom(expr, CloseQuote, pos + 1) = -1

\* C8: when the lexer comes to a string literal that is not closed in the
\* expression, it fails with a LexerError that carries the line number, as
\* it does at a character it does not recognize.
C8_UnterminatedStringRaisesLexerError ==
    [][AtUnterminatedString
            => status' = "LexerError" /\ errLine' = line_num]_vars

----------------------------------------------------------------------------
(* Claims about string literals and about statements after an exit.        *)

RECURSIVE HasString(_)
HasString(e) ==
    \/ e.k = "StringLiteral"
    \/ e.k = "BinaryOp" /\ (HasString(e.left) \/ HasString(e.right))

\* the next handler lowers, through _gen_expression, an expression that
\* holds a string literal (a Print whose operand is the literal itself does
\* not: _gen_print takes that one without _gen_expression)
LowersStrayString ==
    /\ LowersExpr
    /\ HasString(NextExpr)
    /\ AtStmt({"PrintStatement"}) => NextExpr.k # "StringLiteral"

\* C13: a StringLiteral that reaches code generation anywhere but as the
\* direct operand of Print (the value of an Assign, an operand of a
\* comparison or of %, an if, elif or while condition) is an error: the
\* lowering raises instead of returning a value.
C13_StrayStringLiteralRaises ==
    [][LowersStrayString => status' \notin {"gen", "done"}]_vars

\* the block the builder stands in was closed by the ret of a ProgramEnd or
\* Throw and the statement list goes on
AfterExit ==
    /\ status = "gen"
    /\ work # <<>>
    /\ Head(work).k = "stmts"
    /\ CurBlock(Cur).terminated
    /\ CurBlock(Cur).instrs[Len(CurBlock(Cur).instrs)].op = "ret"

\* C16: the statement that follows a ProgramEnd or Throw in its statement
\* list is lowered without a failure of the generator, and the block stays
\* well formed: nothing after its ret, no second terminator.
C16_StatementAfterExitKeepsBlockValid ==
    [][AfterExit =>
        /\ status' = "gen"
        /\ BlockEndsInOneTerminator(
               module'.funcs[builder.fn].blocks[builder.blk])]_vars

\* the loop stands at a token start where the phrase kw begins
AtPhrase(kw) ==
    /\ Lexing
    /\ ~IsSpace(CharAt(expr, pos))
    /\ StartsWith(expr, pos, kw)

\* the turn emits the one token ty for the phrase kw and moves past it
EmitsPhrase(kw, ty) ==
    /\ tokens' = Append(tokens, Token(ty, kw, line_num))
    /\ pos' = pos + Len(kw)
    /\ status' = status

\* C18: in the expression sub-lexer gachinko-janai at a token start is one
\* NEQ token, never EQ followed by an identifier janai; at every position
\* the comparison phrases are tried before string, number, percent,
\* parenthesis and identifier recognition.
C18_LongestComparisonPhraseFirst ==
    [][/\ AtPhrase(KwNEQ) => EmitsPhrase(KwNEQ, "NEQ")
       /\ (AtPhrase(KwEQ) /\ ~AtPhrase(KwNEQ)) => EmitsPhrase(KwEQ, "EQ")
       /\ AtPhrase(KwGT) => EmitsPhrase(KwGT, "GT")
       /\ AtPhrase(KwLT) => EmitsPhrase(KwLT, "LT")]_vars

\* gachinko-janai followed by a number has been lexed as NEQ, INT
C18_Witness ==
    /\ status = "lexed"
    /\ expr = KwNEQ \o <<"1">>
    /\ Len(tokens) = 2
    /\ tokens[1] = Token("NEQ", KwNEQ, line_num)
    /\ tokens[2].type = "INT"

----------------------------------------------------------------------------
(* Lexer.tokenize and Lexer._tokenize_line.  A line is a sequence of        *)
(* characters, indexed from 1; the regular expressions of _tokenize_line    *)
(* are matched as re.match matches them: (.+?) takes the shortest text for  *)
(* which the rest of the pattern still matches.                             *)

\* \s, and what str.strip() removes
ReSpaces == {" ", "\t", WideSpace, Nbsp}
IsWs(c) == c \in ReSpaces

Min(S) == CHOOSE m \in S : \A o \in S : m <= o
Max(S) == CHOOSE m \in S : \A o \in S : m >= o

\* line.strip()
Strip(l) ==
    LET keep == {i \in 1..Len(l) : ~IsWs(l[i])}
    IN  IF keep = {} THEN <<>> ELSE SubSeq(l, Min(keep), Max(keep))

\* l[a..b] is whitespace, possibly empty
AllWs(l, a, b) == \A i \in a..b : IsWs(l[i])

\* the index of the first character from a on that is not whitespace
\* (Len(l) + 1 when there is none)
SkipWs(l, a) == Min({i \in a..(Len(l) + 1) : i = Len(l) + 1 \/ ~IsWs(l[i])})

\* the index of the last character up to b that is not whitespace (0 when
\* there is none)
SkipWsBack(l, b) == Max({i \in 0..b : i = 0 \/ ~IsWs(l[i])})

\* A pattern without groups: a sequence of items, each a character class
\* taken once ("1"), one or more times ("+") or any number of times ("*").
Once(cs) == [cs |-> cs, rep |-> "1"]
Many(cs) == [cs |-> cs, rep |-> "+"]
Maybe(cs) == [cs |-> cs, rep |-> "*"]

RECURSIVE MatchesFrom(_, _, _, _)
MatchesFrom(l, i, pat, j) ==
    IF j > Len(pat) THEN i = Len(l) + 1
    ELSE LET here == i <= Len(l) /\ l[i] \in pat[j].cs
         IN  CASE pat[j].rep = "1" -> here /\ MatchesFrom(l, i + 1, pat, j + 1)
               [] pat[j].rep = "+" ->
                    here /\ (\/ MatchesFrom(l, i + 1, pat, j)
                             \/ MatchesFrom(l, i + 1, pat, j + 1))
               [] OTHER ->
                    \/ MatchesFrom(l, i, pat, j + 1)
                    \/ here /\ MatchesFrom(l, i + 1, pat, j)

Matches(l, pat) == MatchesFrom(l, 1, pat, 1)

\* LINE_PATTERNS
StartPattern == <<Once({PStart}), Many(ReSpaces), Once({PSonou})>>
EndPattern == <<Once({PEnd})>>
ThrowPattern == <<Once({PThrow}), Many(ReSpaces), Once({POmae})>>

\* the else header
ElsePattern ==
    <<Once({HU}), Many(ReSpaces), Once({HA}), Many(ReSpaces), Once({HA}),
      Many(ReSpaces), Once({HA}), Many(ReSpaces), Once({HA}),
      Once({FwOpen, "("}), Maybe(ReSpaces), Once({FwP, "P"}), Once({FwC, "C"}),
      Once({PKakimoji}), Maybe(ReSpaces), Once({FwClose, ")"}), Maybe(ReSpaces),
      Once({"{"})>>

\* ^<open>(.+?)<close>(.*)$ of the comment line: the end of group 1, 0 when
\* the line does not match
CommentEnd(l) ==
    LET ends == {i \in 2..(Len(l) - 2) :
                    l[i + 1] = PComment /\ l[i + 2] = FwClose}
    IN  IF Len(l) >= 4 /\ l[1] = FwOpen /\ ends # {} THEN Min(ends) ELSE 0

\* ^(.+?)da\s+\1ga-shoutai...$: the length of group 1, 0 when no match
DeclareLen(l) ==
    LET n == Len(l)
        ok == {m \in 1..n :
                 /\ n - 2 * m - 3 >= 1
                 /\ l[m + 1] = HDa
                 /\ AllWs(l, m + 2, n - m - 2)
                 /\ SubSeq(l, n - m - 1, n - 2) = SubSeq(l, 1, m)
                 /\ l[n - 1] = HGa
                 /\ l[n] = PReveal}
    IN  IF ok = {} THEN 0 ELSE Min(ok)

\* the tail \s*\{$ : the index of the last character before it, 0 when the
\* line does not end with an opening brace
BeforeBrace(l) ==
    IF Len(l) >= 1 /\ l[Len(l)] = "{" THEN SkipWsBack(l, Len(l) - 1) ELSE 0

\* ^<kw>\s+\((.+?)\)\s*\{$ of the if and elif headers: group 1, <<>> when
\* the line does not match
HeaderCond(l, kw) ==
    LET b == SkipWs(l, 2)
        u == BeforeBrace(l)
    IN  IF /\ Len(l) >= 6
           /\ l[1] = kw
           /\ b >= 3
           /\ b <= Len(l)
           /\ l[b] = "("
           /\ u >= b + 2
           /\ l[u] = ")"
        THEN SubSeq(l, b + 1, u - 1) ELSE <<>>

\* ^kindan-no[""<open>](.+?)do-uchi[""<close>]\s*\{$ : group 1
WhileCond(l) ==
    LET u == BeforeBrace(l)
    IN  IF /\ Len(l) >= 6
           /\ l[1] = PWhile
           /\ l[2] \in {DQuote, OpenQuote}
           /\ u >= 5
           /\ l[u] \in {DQuote, CloseQuote}
           /\ l[u - 1] = PTimes
        THEN SubSeq(l, 3, u - 2) ELSE <<>>

\* ^\}\s*(.+?)\s+kinshi\s*\{$ : the text between the brace and the phrase
\* (group 1 and the whitespace around it), <<>> when the line does not match
CatchName(l) ==
    LET c == BeforeBrace(l)
    IN  IF /\ Len(l) >= 5
           /\ l[1] = "}"
           /\ c >= 4
           /\ l[c] = PCatch
           /\ IsWs(l[c - 1])
        THEN SubSeq(l, 2, c - 1) ELSE <<>>

\* ^(.+?)\s+<suffix>$ : group 1, <<>> when the line does not match
SuffixGroup(l, suf) ==
    LET n == Len(l)
        k == Len(suf)
        r == n - k
        s == IF r >= 1 THEN SkipWsBack(l, r) + 1 ELSE 0
        m == IF s <= 1 THEN 1 ELSE s - 1
    IN  IF /\ r >= 2
           /\ SubSeq(l, r + 1, n) = suf
           /\ IsWs(l[r])
           /\ m <= r - 1
        THEN SubSeq(l, 1, m) ELSE <<>>

\* ^(.+?)\s+wo-tsugu\s+(.+)$ : the index of the phrase, 0 when no match
AssignAt(l) ==
    LET hits == {a \in 3..(Len(l) - 2) :
                    /\ l[a] = PAssign
                    /\ IsWs(l[a - 1])
                    /\ IsWs(l[a + 1])}
    IN  IF hits = {} THEN 0 ELSE Min(hits)

\* ^jibuntachi\s+(.+?)ga\s+\((.+?)\)runda\s*\{$ : the index of ga, 0 when
\* the line does not match.  \s+ gives back whitespace only when no ga
\* further right will do.
FnTail(l, a) ==
    LET b == SkipWs(l, a + 1)
        t == BeforeBrace(l)
    IN  /\ l[a] = HGa
        /\ b >= a + 2
        /\ b <= Len(l)
        /\ l[b] = "("
        /\ t >= b + 3
        /\ l[t] = PRunda
        /\ l[t - 1] = ")"

FnGaAt(l) ==
    LET s0 == SkipWs(l, 2)
        hits == {a \in 4..Len(l) : FnTail(l, a)}
        right == {a \in hits : a > s0}
    IN  IF Len(l) < 9 \/ l[1] # PFn \/ s0 < 3 THEN 0
        ELSE IF right # {} THEN Min(right)
        ELSE IF s0 \in hits /\ s0 >= 4 THEN s0
        ELSE 0

\* the list with the print form ahead of the assign form
MatcherOrder_PrintBeforeAssign ==
    <<"comment", "start", "end", "throw", "declare", "function", "if",
      "elif", "else", "while", "catch", "rbrace", "print", "assign", "input",
      "increment", "decrement">>

\* the matchers of _tokenize_line, in the order of the code
MatcherOrder ==
    <<"comment", "start", "end", "throw", "declare", "function", "if",
      "elif", "else", "while", "catch", "rbrace", "assign", "print", "input",
      "increment", "decrement">>

PrintSuffix == <<PPrint>>
InputSuffix == <<PInput>>
IncrementSuffix == <<PIncrement>>
DecrementSuffix == <<FwOpen, KAi, FwClose>>

\* the matcher k applies to the (stripped) line l
Applies(k, l) ==
    CASE k = "comment" -> CommentEnd(l) # 0
      [] k = "start" -> Matches(l, StartPattern)
      [] k = "end" -> Matches(l, EndPattern)
      [] k = "throw" -> Matches(l, ThrowPattern)
      [] k = "declare" -> DeclareLen(l) # 0
      [] k = "function" -> FnGaAt(l) # 0
      [] k = "if" -> HeaderCond(l, PIf) # <<>>
      [] k = "elif" -> HeaderCond(l, PElif) # <<>>
      [] k = "else" -> Matches(l, ElsePattern)
      [] k = "while" -> WhileCond(l) # <<>>
      [] k = "catch" -> CatchName(l) # <<>>
      [] k = "rbrace" -> l = <<"}">>
      [] k = "assign" -> AssignAt(l) # 0
      [] k = "print" -> SuffixGroup(l, PrintSuffix) # <<>>
      [] k = "input" -> SuffixGroup(l, InputSuffix) # <<>>
      [] k = "increment" -> SuffixGroup(l, IncrementSuffix) # <<>>
      [] k = "decrement" -> SuffixGroup(l, DecrementSuffix) # <<>>
      [] OTHER -> FALSE

\* the first matcher of the list that applies, "none" when none does
FirstMatch(order, l) ==
    LET hits == {i \in 1..Len(order) : Applies(order[i], l)}
    IN  IF hits = {} THEN "none" ELSE order[Min(hits)]

Classify(l) == FirstMatch(MatcherOrder, l)

\* str.split(c)
RECURSIVE SplitAt(_, _)
SplitAt(l, c) ==
    LET hits == {i \in 1..Len(l) : l[i] = c}
    IN  IF hits = {} THEN <<l>>
        ELSE <<SubSeq(l, 1, Min(hits) - 1)>>
                 \o SplitAt(SubSeq(l, Min(hits) + 1, Len(l)), c)

\* (variant: a piece that is empty or blank gives no token)
FnTokens_SkipsBlankPieces(l, n) ==
    LET a == FnGaAt(l)
        b == SkipWs(l, a + 1)
        t == BeforeBrace(l)
        NonBlankPiece(piece) == Strip(piece) # <<>>
        args == SelectSeq(SplitAt(Strip(SubSeq(l, b + 1, t - 2)), ","),
                          NonBlankPiece)
    IN  <<Token("FN_PREFIX", <<PFn>>, n),
          Token("IDENT", Strip(SubSeq(l, 2, a - 1)), n),
          Token("FN_GA", <<HGa>>, n)>>
          \o [i \in 1..Len(args) |-> Token("IDENT", Strip(args[i]), n)]
          \o <<Token("FN_RUNDA", <<PRunda>>, n), Token("LBRACE", <<"{">>, n)>>

\* the tokens of a function header: the name, ga, one IDENT for each piece
\* of the argument text between commas, runda, the brace
FnTokens(l, n) ==
    LET a == FnGaAt(l)
        b == SkipWs(l, a + 1)
        t == BeforeBrace(l)
        args == SplitAt(Strip(SubSeq(l, b + 1, t - 2)), ",")
    IN  <<Token("FN_PREFIX", <<PFn>>, n),
          Token("IDENT", Strip(SubSeq(l, 2, a - 1)), n),
          Token("FN_GA", <<HGa>>, n)>>
          \o [i \in 1..Len(args) |-> Token("IDENT", Strip(args[i]), n)]
          \o <<Token("FN_RUNDA", <<PRunda>>, n), Token("LBRACE", <<"{">>, n)>>

CommentToken(l, n) ==
    LET e == CommentEnd(l)
        rest == Strip(SubSeq(l, e + 3, Len(l)))
    IN  Token("COMMENT",
              IF rest # <<>> THEN rest ELSE SubSeq(l, 2, e) \o <<PComment>>, n)

\* the catch header: the brace, the phrase, the name, the brace
\* (variant: the catch phrase and its name are dropped, the brace kept)
CatchTokens_OnlyBrace(l, n) == <<Token("RBRACE", <<"}">>, n)>>

CatchTokens(l, n) ==
    <<Token("RBRACE", <<"}">>, n), Token("CATCH", <<PCatch>>, n),
      Token("IDENT", Strip(CatchName(l)), n), Token("LBRACE", <<"{">>, n)>>

\* the value the code gives the ELSE token
ElsePhrase ==
    <<HU, WideSpace, HA, WideSpace, HA, WideSpace, HA, WideSpace, HA, FwOpen,
      FwP, FwC, PKakimoji, FwClose>>

NoExpr == <<"none">>
Form(h, e, t) == [head |-> h, expr |-> e, tail |-> t]
Plain(h) == Form(h, NoExpr, <<>>)
Header(ty, kw, cond, n) ==
    Form(<<Token(ty, <<kw>>, n), Token("LPAREN", <<"(">>, n)>>, Strip(cond),
         <<Token("RPAREN", <<")">>, n), Token("LBRACE", <<"{">>, n)>>)
NameThen(l, suf, ty, n) ==
    Plain(<<Token("IDENT", Strip(SuffixGroup(l, suf)), n),
            Token(ty, suf, n)>>)

\* what the matcher k makes of line l, which has number n: the tokens it
\* appends, the text it hands to _tokenize_expr in between (NoExpr when it
\* does not call it), the tokens it appends after that
LineForm(k, l, n) ==
    CASE k = "comment" -> Plain(<<CommentToken(l, n)>>)
      [] k = "start" -> Plain(<<Token("PROGRAM_START", l, n)>>)
      [] k = "end" -> Plain(<<Token("PROGRAM_END", l, n)>>)
      [] k = "throw" -> Plain(<<Token("THROW", l, n)>>)
      [] k = "declare" ->
            LET name == Strip(SubSeq(l, 1, DeclareLen(l)))
            IN  Plain(<<Token("DECLARE_DA", name, n),
                        Token("DECLARE_REVEAL", name, n)>>)
      [] k = "function" -> Plain(FnTokens(l, n))
      [] k = "if" -> Header("IF", PIf, HeaderCond(l, PIf), n)
      [] k = "elif" -> Header("ELIF", PElif, HeaderCond(l, PElif), n)
      [] k = "else" ->
            Plain(<<Token("ELSE", ElsePhrase, n), Token("LBRACE", <<"{">>, n)>>)
      [] k = "while" -> Header("WHILE", PWhile, WhileCond(l), n)
      [] k = "catch" -> Plain(CatchTokens(l, n))
      [] k = "rbrace" -> Plain(<<Token("RBRACE", <<"}">>, n)>>)
      [] k = "assign" ->
            Form(<<>>, Strip(SubSeq(l, 1, AssignAt(l) - 1)),
                 <<Token("ASSIGN_TSUGU", <<PAssign>>, n),
                   Token("IDENT", Strip(SubSeq(l, AssignAt(l) + 1, Len(l))),
                         n)>>)
      [] k = "print" ->
            Form(<<>>, Strip(SuffixGroup(l, PrintSuffix)),
                 <<Token("PRINT", PrintSuffix, n)>>)
      [] k = "input" -> NameThen(l, InputSuffix, "INPUT", n)
      [] k = "increment" -> NameThen(l, IncrementSuffix, "INCREMENT", n)
      [] k = "decrement" -> NameThen(l, DecrementSuffix, "DECREMENT", n)

\* a NEWLINE token that does not carry its line
NewlineToken_Unnumbered(n) == Token("NEWLINE", <<"\\n">>, 0)

NewlineToken(n) == Token("NEWLINE", <<"\\n">>, n)
EofToken(n) == Token("EOF", <<>>, n)

\* tokenize is in its loop and has a line left
AtLine ==
    /\ status = "tokenize"
    /\ line_num < Len(lines)

NextLine == Strip(lines[line_num + 1])

TokenizeFixed ==
    UNCHANGED <<genVars, runVars, emitted, lines, parser_pos, buffer,
                brace_depth>>

\* `if not stripped: continue`
TokenizeBlank ==
    /\ AtLine
    /\ NextLine = <<>>
    /\ line_num' = line_num + 1
    /\ UNCHANGED <<status, tokens, expr, pos, after_expr>>
    /\ TokenizeFixed

\* a line whose matcher does not call _tokenize_expr: its tokens, then the
\* NEWLINE that tokenize appends
TokenizePlainLine ==
    /\ AtLine
    /\ NextLine # <<>>
    /\ Classify(NextLine) # "none"
    /\ LET n == line_num + 1
           f == LineForm(Classify(NextLine), NextLine, n)
       IN  /\ f.expr = NoExpr
           /\ tokens' = tokens \o f.head \o <<NewlineToken(n)>>
           /\ line_num' = n
    /\ UNCHANGED <<status, expr, pos, after_expr>>
    /\ TokenizeFixed

\* a line whose matcher calls _tokenize_expr: the tokens before the call
TokenizeExprLine ==
    /\ AtLine
    /\ NextLine # <<>>
    /\ Classify(NextLine) # "none"
    /\ LET n == line_num + 1
           f == LineForm(Classify(NextLine), NextLine, n)
       IN  /\ f.expr # NoExpr
           /\ tokens' = tokens \o f.head
           /\ expr' = f.expr
           /\ pos' = 0
           /\ after_expr' = f.tail
           /\ line_num' = n
           /\ status' = "lex"
    /\ TokenizeFixed

\* no matcher applies: raise LexerError(..., line_num)
TokenizeUnknown ==
    /\ AtLine
    /\ NextLine # <<>>
    /\ Classify(NextLine) = "none"
    /\ line_num' = line_num + 1
    /\ status' = "LexerError"
    /\ UNCHANGED <<tokens, expr, pos, after_expr, program, work, module,
                   builder, variables, functions, string_counter>>
    /\ errLine' = line_num + 1
    /\ UNCHANGED <<runVars, emitted, lines, parser_pos, buffer, brace_depth>>

\* _tokenize_expr has returned to _tokenize_line, which appends the rest
\* of the line's tokens and returns to tokenize, which appends the NEWLINE
ExprReturn ==
    /\ status = "lexed"
    /\ lines # <<>>
    /\ tokens' = tokens \o after_expr \o <<NewlineToken(line_num)>>
    /\ after_expr' = <<>>
    /\ status' = "tokenize"
    /\ UNCHANGED <<expr, pos, line_num>>
    /\ TokenizeFixed

\* the loop of tokenize is over: the EOF token, and the list is returned
TokenizeReturn ==
    /\ status = "tokenize"
    /\ line_num = Len(lines)
    /\ tokens' = Append(tokens, EofToken(Len(lines) + 1))
    /\ status' = "tokens"
    /\ UNCHANGED <<expr, pos, line_num, after_expr>>
    /\ TokenizeFixed

MaxParts == 3
MaxLines == 3

\* what the lines are put together from
LineParts ==
    { <<"x">>, <<"1">>, <<"}">>, <<"!">>, <<"%">>, <<OpenQuote, "a", CloseQuote>>,
      KwLT, <<" ", PPrint>>, <<" ", PAssign, " ">>, <<" ", PInput>>,
      <<" ", PIncrement>>, <<" ", FwOpen, KAi, FwClose>>,
      <<PIf, " ", "(">>, <<")", " ", "{">>, <<PWhile, DQuote>>,
      <<PTimes, DQuote, "{">>, <<" ", PCatch, " ", "{">>,
      <<HDa, " ", "x", HGa, PReveal>>, <<PFn, " ", "f", HGa, " ", "(">>,
      <<")", PRunda, "{">>, <<FwOpen, "x", PComment, FwClose>>,
      <<PStart, WideSpace, PSonou>>, <<PEnd>>, <<PThrow, " ", POmae>> }

XPrints == <<"x", " ", PPrint>>
IfXOpens == <<PIf, " ", "(", "x", ")", " ", "{">>

\* lines of forms the parts do not give: an elif and an else header, a while
\* in corner brackets, a function of two parameters, a declaration of a name
\* with a blank inside, whitespace that only \s knows, a comment with text
OtherLines ==
    { <<PElif, WideSpace, "(", " ", "x", " ", ")", "{">>,
      ElsePhrase \o <<" ", "{">>,
      <<HU, " ", HA, " ", HA, " ", HA, " ", HA, "(", "P", "C", PKakimoji,
        ")", "{">>,
      <<PWhile, OpenQuote, "x", " ">> \o KwLT \o <<" ", "3", PTimes,
                                                 CloseQuote, " ", "{">>,
      <<PFn, " ", "f", HGa, " ", "(", "x", ",", " ", "y", ")", PRunda, " ",
        "{">>,
      <<PFn, " ", " ", HGa, " ", "(", "x", ",", ",", ")", PRunda, "{">>,
      <<"x", " ", "y", HDa, " ", "x", " ", "y", HGa, PReveal>>,
      <<"x", Nbsp, PPrint>>, <<"x", Nbsp, "1", " ", PPrint>>,
      <<FwOpen, "x", PComment, FwClose, " ", "a", " ">>,
      <<"1", " ", PAssign, " ", "x", " ", PPrint>>,
      <<" ", "\t", "x", " ", PPrint, WideSpace>>,
      <<"}", " ", " ", PCatch, "{">> }

\* the lines of the sources of several lines
FewLines == {<<>>, <<" ", WideSpace>>, XPrints, IfXOpens, <<"}">>, <<"!">>}

Sources ==
    { <<Flatten(ps)>> : ps \in SeqsUpTo(LineParts, MaxParts) }
        \cup { <<l>> : l \in OtherLines }
        \cup SeqsUpTo(FewLines, MaxLines)

\* Lexer(source) has been constructed and tokenize entered
InitOfSources(sources) ==
    /\ lines \in sources
    /\ status = "tokenize"
    /\ NotLexing
    /\ after_expr = <<>>
    /\ parser_pos = 0
    /\ buffer = <<>>
    /\ brace_depth = 0
    /\ errLine = 0
    /\ program = <<>>
    /\ work = <<>>
    /\ module = EmptyModule
    /\ builder = NoBuilder
    /\ variables = NoVars
    /\ functions = [n \in {} |-> 0]
    /\ string_counter = 0
    /\ NotRunning
    /\ emitted = <<>>

InitTokenize == InitOfSources(Sources)

NextTokenize ==
    \/ TokenizeBlank
    \/ TokenizePlainLine
    \/ TokenizeExprLine
    \/ TokenizeUnknown
    \/ ExprReturn
    \/ TokenizeReturn
    \/ LexSkipSpace
    \/ LexKeyword
    \/ LexString
    \/ LexNumber
    \/ LexPercent
    \/ LexParen
    \/ LexIdent
    \/ LexUnknown
    \/ LexReturn

SpecTokenize == InitTokenize /\ [][NextTokenize]_vars

----------------------------------------------------------------------------
(* Claims about Lexer.tokenize and Lexer._tokenize_line.                    *)

\* the numbers of the lines that are not blank
NonBlank == {i \in 1..Len(lines) : Strip(lines[i]) # <<>>}

NewlineAt == {j \in 1..Len(tokens) : tokens[j].type = "NEWLINE"}

\* the NEWLINE that closes the line of the token at j
ClosingNewline(j) == Min({i \in NewlineAt \cup {Len(tokens)} : i >= j})

\* C15: when tokenize succeeds, every line that is not blank gives one or
\* more tokens and then exactly one NEWLINE, blank lines give nothing, the
\* list ends with the only EOF, and the tokens carry the 1-based numbers of
\* their lines (blank lines counted), which never decrease along the list.
C15_TokenListShape ==
    status = "tokens" =>
        /\ tokens # <<>>
        /\ \A j \in 1..Len(tokens) :
                tokens[j].type = "EOF" <=> j = Len(tokens)
        /\ Cardinality(NewlineAt) = Cardinality(NonBlank)
        /\ {tokens[j].line : j \in NewlineAt} = NonBlank
        /\ \A j \in NewlineAt :
                /\ j > 1
                /\ tokens[j - 1].type # "NEWLINE"
                /\ tokens[j - 1].line = tokens[j].line
        /\ \A j \in 1..(Len(tokens) - 1) :
                /\ tokens[j].line \in NonBlank
                /\ tokens[j].line <= tokens[j + 1].line
                /\ tokens[ClosingNewline(j)].type = "NEWLINE"
                /\ tokens[ClosingNewline(j)].line = tokens[j].line

\* a blank line, an if header and a closing brace have been tokenized
C15_Witness ==
    /\ status = "tokens"
    /\ lines = << <<>>, IfXOpens, <<"}">> >>
    /\ Len(tokens) = 9
    /\ tokens[1].line = 2
    /\ tokens[9].line = 4

\* the priority order of the specification: whole-line phrases, comment,
\* declare pair, function header, control headers (if, elif, while), else
\* header, catch header, lone brace, then the suffix forms
SpecOrder ==
    <<"start", "end", "throw", "comment", "declare", "function", "if",
      "elif", "while", "else", "catch", "rbrace", "assign", "print", "input",
      "increment", "decrement">>

\* the turn of tokenize's loop for a line that is not blank does what the
\* matcher k does: its tokens and the NEWLINE, or its leading tokens and the
\* call of _tokenize_expr; LexerError with the line's number for no matcher
TokenizedAs(k) ==
    LET n == line_num + 1
        f == LineForm(k, NextLine, n)
    IN  IF k = "none"
        THEN status' = "LexerError" /\ errLine' = n /\ tokens' = tokens
        ELSE IF f.expr = NoExpr
        THEN /\ tokens' = tokens \o f.head \o <<Token("NEWLINE", <<"\\n">>, n)>>
             /\ status' = "tokenize"
        ELSE /\ tokens' = tokens \o f.head
             /\ expr' = f.expr
             /\ after_expr' = f.tail
             /\ status' = "lex"

\* C17: the lexer classifies every trimmed line as the priority order of
\* the specification does: the first matcher of that order that applies
\* decides the tokens, and a line no matcher applies to raises LexerError
\* with the line's number; the order of the code (comment ahead of the
\* whole-line phrases, else ahead of while) gives the same result.
C17_CodeOrderEqualsSpecOrder ==
    [][(AtLine /\ NextLine # <<>>)
            => TokenizedAs(FirstMatch(SpecOrder, NextLine))]_vars

\* a line that both the assign and the print form apply to has been
\* tokenized, as an assignment
C17_Witness ==
    /\ status = "tokens"
    /\ Len(lines) = 1
    /\ Applies("assign", Strip(lines[1]))
    /\ Applies("print", Strip(lines[1]))
    /\ \E j \in 1..Len(tokens) : tokens[j].type = "ASSIGN_TSUGU"
    /\ \A j \in 1..Len(tokens) : tokens[j].type # "PRINT"

----------------------------------------------------------------------------
(* Parser (tough/parser.py).  The methods that parse are functions from a   *)
(* token list and a position to the node built, the position reached and   *)
(* the ParseError raised, if any; positions count from 0 as in the code.    *)

NoNode == [k |-> "None"]

\* a method returned node nd with self.pos = p / raised ParseError(..., ln)
\* with self.pos = p
Ok(nd, p) == [node |-> nd, pos |-> p, err |-> "", line |-> 0]
Fail(p, ln) == [node |-> NoNode, pos |-> p, err |-> "ParseError", line |-> ln]

\* _current and _peek: past the end they give an EOF token of line 0
TokAt(toks, p) ==
    IF p < Len(toks) THEN toks[p + 1] ELSE Token("EOF", <<>>, 0)

RECURSIVE SkipNewlines(_, _)
SkipNewlines(toks, p) ==
    IF TokAt(toks, p).type = "NEWLINE" THEN SkipNewlines(toks, p + 1) ELSE p

\* _expect: the token taken, or ParseError with the line of the token found
Expect(toks, p, ty) ==
    IF TokAt(toks, p).type = ty THEN Ok(TokAt(toks, p), p + 1)
    ELSE Fail(p, TokAt(toks, p).line)

\* a token's value as the string the node keeps
RECURSIVE Join(_)
Join(cs) == IF cs = <<>> THEN "" ELSE Head(cs) \o Join(Tail(cs))

DigitOf(c) == CHOOSE d \in 0..9 : ToString(d) = c

\* int(tok.value) for -?\d+
RECURSIVE DigitsValue(_)
DigitsValue(cs) ==
    IF cs = <<>> THEN 0
    ELSE 10 * DigitsValue(SubSeq(cs, 1, Len(cs) - 1)) + DigitOf(cs[Len(cs)])

IntOf(cs) ==
    IF cs[1] = "-" THEN 0 - DigitsValue(Tail(cs)) ELSE DigitsValue(cs)

\* float(tok.value) for -?\d+\.\d+, in tenths; digits after the first
\* fractional one are below what the generator's int() keeps
TenthsOf(cs) ==
    LET dot == Min({i \in 1..Len(cs) : cs[i] = "."})
        whole == SubSeq(cs, 1, dot - 1)
        mag == 10 * DigitsValue(IF whole[1] = "-" THEN Tail(whole) ELSE whole)
                 + DigitOf(cs[dot + 1])
    IN  IF cs[1] = "-" THEN 0 - mag ELSE mag

OpTypes == {"EQ", "NEQ", "GT", "LT", "PERCENT"}
OpOf(ty) ==
    CASE ty = "EQ" -> "=="
      [] ty = "NEQ" -> "!="
      [] ty = "GT" -> ">"
      [] ty = "LT" -> "<"
      [] ty = "PERCENT" -> "%"

\* the last line of _parse_primary: raise ParseError(..., tok.line)
\* (variant: the token is skipped instead)
UnexpectedToken_Skipped(toks, p) == Ok(NoNode, p + 1)

UnexpectedToken(toks, p) == Fail(p, TokAt(toks, p).line)

\* what follows a call that may raise: r is the call's outcome, evaluated
\* once; an exception propagates, a return goes on with K
Then(r, K(_)) ==
    CHOOSE x \in { IF v.err # "" THEN v ELSE K(v) : v \in {r} } : TRUE

RECURSIVE ParseExpression(_, _)
RECURSIVE ParseOperators(_, _, _)

ParsePrimary(toks, p) ==
    LET tok == TokAt(toks, p)
    IN  CASE tok.type = "INT" -> Ok(IntLiteral(IntOf(tok.value), tok.line), p + 1)
          [] tok.type = "FLOAT" ->
                Ok(FloatLiteral(TenthsOf(tok.value), tok.line), p + 1)
          [] tok.type = "STRING" ->
                Ok(StringLiteral(Join(tok.value), tok.line), p + 1)
          [] tok.type = "IDENT" ->
                Ok(Identifier(Join(tok.value), tok.line), p + 1)
          [] tok.type = "LPAREN" ->
                Then(ParseExpression(toks, p + 1), LAMBDA e :
                Then(Expect(toks, e.pos, "RPAREN"), LAMBDA r :
                Ok(e.node, r.pos)))
          [] OTHER -> UnexpectedToken(toks, p)

\* (variant: the right operand is the rest of the chain)
ParseOperators_RightOperandIsRest(toks, p, left) ==
    LET op_tok == TokAt(toks, p)
    IN  IF op_tok.type \notin OpTypes THEN Ok(left, p)
        ELSE Then(ParseExpression(toks, p + 1), LAMBDA right :
             Ok(BinaryOp(OpOf(op_tok.type), left, right.node, op_tok.line),
                right.pos))

\* the loop of _parse_expression, left being the expression built so far
ParseOperators(toks, p, left) ==
    LET op_tok == TokAt(toks, p)
    IN  IF op_tok.type \notin OpTypes THEN Ok(left, p)
        ELSE Then(ParsePrimary(toks, p + 1), LAMBDA right :
             ParseOperators(toks, right.pos,
                            BinaryOp(OpOf(op_tok.type), left, right.node,
                                     op_tok.line)))

ParseExpression(toks, p) ==
    Then(ParsePrimary(toks, p), LAMBDA left :
    ParseOperators(toks, left.pos, left.node))

\* a statement of one keyword token: Comment, ProgramStart, ProgramEnd, Throw
ParseKeyword(toks, p, nd) == Ok(nd, SkipNewlines(toks, p + 1))

ParseDeclare(toks, p) ==
    LET tok == TokAt(toks, p)
    IN  Then(Expect(toks, p + 1, "DECLARE_REVEAL"), LAMBDA r :
        Ok(DeclareStatement(Join(tok.value), tok.line),
           SkipNewlines(toks, r.pos)))

\* (variant: no look at the token after a name; an expression is parsed
\* first in every case)
ParseExprStatement_ExpressionFirst(toks, p) ==
    LET tok == TokAt(toks, p)
    IN  Then(ParseExpression(toks, p), LAMBDA e :
        LET cur == TokAt(toks, e.pos)
        IN  IF cur.type = "PRINT"
            THEN Ok(PrintStatement(e.node, tok.line),
                    SkipNewlines(toks, e.pos + 1))
            ELSE IF cur.type = "ASSIGN_TSUGU"
            THEN Then(Expect(toks, e.pos + 1, "IDENT"), LAMBDA var_tok :
                 Ok(AssignStatement(Join(var_tok.node.value), e.node,
                                    tok.line),
                    SkipNewlines(toks, var_tok.pos)))
            ELSE Fail(e.pos, cur.line))

ParseExprStatement(toks, p) ==
    LET tok == TokAt(toks, p)
        next_tok == TokAt(toks, p + 1)
        after == SkipNewlines(toks, p + 2)
    IN  IF tok.type = "IDENT" /\ next_tok.type = "INCREMENT"
        THEN Ok(IncrementStatement(Join(tok.value), tok.line), after)
        ELSE IF tok.type = "IDENT" /\ next_tok.type = "DECREMENT"
        THEN Ok(DecrementStatement(Join(tok.value), tok.line), after)
        ELSE IF tok.type = "IDENT" /\ next_tok.type = "INPUT"
        THEN Ok(InputStatement(Join(tok.value), tok.line), after)
        ELSE Then(ParseExpression(toks, p), LAMBDA e :
             LET cur == TokAt(toks, e.pos)
             IN  IF cur.type = "PRINT"
                 THEN Ok(PrintStatement(e.node, tok.line),
                         SkipNewlines(toks, e.pos + 1))
                 ELSE IF cur.type = "ASSIGN_TSUGU"
                 THEN Then(Expect(toks, e.pos + 1, "IDENT"), LAMBDA var_tok :
                      Ok(AssignStatement(Join(var_tok.node.value), e.node,
                                         tok.line),
                         SkipNewlines(toks, var_tok.pos)))
                 ELSE Fail(e.pos, cur.line))

\* the parameter loop of _parse_function: the position after the last
\* parameter
RECURSIVE ParamsLoop(_, _)
ParamsLoop(toks, p) ==
    IF TokAt(toks, p).type = "IDENT" /\ TokAt(toks, p + 1).type # "FN_RUNDA"
    THEN ParamsLoop(toks, p + 1) ELSE p

ParamsEnd(toks, p) ==
    LET q == ParamsLoop(toks, p)
    IN  IF TokAt(toks, q).type = "IDENT" THEN q + 1 ELSE q

\* the end of _parse_block, the loop having stopped at p with the
\* statements acc: the closing brace is taken if there is one
\* (variant: the closing brace is required)
BlockEnd_RequiresBrace(toks, p, acc) ==
    IF TokAt(toks, p).type = "RBRACE" THEN Ok(acc, SkipNewlines(toks, p + 1))
    ELSE Fail(p, TokAt(toks, p).line)

BlockEnd(toks, p, acc) ==
    Ok(acc, SkipNewlines(toks, IF TokAt(toks, p).type = "RBRACE" THEN p + 1
                               ELSE p))

RECURSIVE ParseStatement(_, _)
RECURSIVE BlockLoop(_, _, _)
RECURSIVE ElifLoop(_, _, _)

ParseBlock(toks, p) == BlockLoop(toks, p, <<>>)

\* ( condition ) { block, from the position of the parenthesis: the pair of
\* the condition and the body
ParseGuarded(toks, p) ==
    Then(Expect(toks, p, "LPAREN"), LAMBDA lp :
    Then(ParseExpression(toks, lp.pos), LAMBDA c :
    Then(Expect(toks, c.pos, "RPAREN"), LAMBDA rp :
    Then(Expect(toks, rp.pos, "LBRACE"), LAMBDA lb :
    Then(ParseBlock(toks, SkipNewlines(toks, lb.pos)), LAMBDA b :
    Ok(<<c.node, b.node>>, b.pos))))))

\* (variant: at most one elif clause is taken)
ElifLoop_AtMostOne(toks, p, acc) ==
    IF TokAt(toks, p).type # "ELIF" THEN Ok(acc, p)
    ELSE Then(ParseGuarded(toks, p + 1), LAMBDA g :
         Ok(Append(acc, g.node), g.pos))

\* the elif loop of _parse_if, acc being the clauses so far
ElifLoop(toks, p, acc) ==
    IF TokAt(toks, p).type # "ELIF" THEN Ok(acc, p)
    ELSE Then(ParseGuarded(toks, p + 1), LAMBDA g :
         ElifLoop(toks, g.pos, Append(acc, g.node)))

\* the else part of _parse_if
ElseBody(toks, p) ==
    IF TokAt(toks, p).type # "ELSE" THEN Ok(<<>>, p)
    ELSE Then(Expect(toks, p + 1, "LBRACE"), LAMBDA lb :
         ParseBlock(toks, SkipNewlines(toks, lb.pos)))

ParseIf(toks, p) ==
    Then(ParseGuarded(toks, p + 1), LAMBDA g :
    Then(ElifLoop(toks, g.pos, <<>>), LAMBDA ei :
    Then(ElseBody(toks, ei.pos), LAMBDA el :
    Ok(IfStatement(g.node[1], g.node[2], ei.node, el.node,
                   TokAt(toks, p).line), el.pos))))

ParseWhile(toks, p) ==
    Then(ParseGuarded(toks, p + 1), LAMBDA g :
    Ok(WhileStatement(g.node[1], g.node[2], TokAt(toks, p).line), g.pos))

ParseFunction(toks, p) ==
    Then(Expect(toks, p + 1, "IDENT"), LAMBDA name_tok :
    Then(Expect(toks, name_tok.pos, "FN_GA"), LAMBDA ga :
    LET q == ParamsEnd(toks, ga.pos)
        params == [i \in 1..(q - ga.pos) |-> Join(toks[ga.pos + i].value)]
    IN  Then(Expect(toks, q, "FN_RUNDA"), LAMBDA runda :
        Then(Expect(toks, runda.pos, "LBRACE"), LAMBDA lb :
        Then(ParseBlock(toks, SkipNewlines(toks, lb.pos)), LAMBDA body :
        Ok(FnStatement(Join(name_tok.node.value), params, body.node,
                       TokAt(toks, p).line), body.pos))))))

ParseStatement(toks, p) ==
    LET tok == TokAt(toks, p)
    IN  CASE tok.type = "COMMENT" -> ParseKeyword(toks, p, Comment(tok.line))
          [] tok.type = "PROGRAM_START" ->
                ParseKeyword(toks, p, ProgramStart(tok.line))
          [] tok.type = "PROGRAM_END" ->
                ParseKeyword(toks, p, ProgramEnd(tok.line))
          [] tok.type = "THROW" ->
                ParseKeyword(toks, p, ThrowStatement(tok.line))
          [] tok.type = "DECLARE_DA" -> ParseDeclare(toks, p)
          [] tok.type = "FN_PREFIX" -> ParseFunction(toks, p)
          [] tok.type = "IF" -> ParseIf(toks, p)
          [] tok.type = "WHILE" -> ParseWhile(toks, p)
          [] OTHER -> ParseExprStatement(toks, p)

\* the loop of _parse_block, acc being the statements so far
BlockLoop(toks, p, acc) ==
    IF TokAt(toks, p).type \in {"RBRACE", "EOF"} THEN BlockEnd(toks, p, acc)
    ELSE Then(ParseStatement(toks, p), LAMBDA s :
         BlockLoop(toks, SkipNewlines(toks, s.pos),
                   IF s.node = NoNode THEN acc ELSE Append(acc, s.node)))

ParseFixed ==
    UNCHANGED <<work, module, builder, variables, functions, string_counter,
                runVars, emitted, lexVars, lines, after_expr, buffer,
                brace_depth>>

\* Parser(tokens) is constructed and parse entered: an empty Program, the
\* leading NEWLINE tokens skipped
ParseEnter ==
    /\ status = "tokens"
    /\ program' = <<>>
    /\ parser_pos' = SkipNewlines(tokens, 0)
    /\ status' = "parse"
    /\ UNCHANGED errLine
    /\ ParseFixed

\* one turn of the loop of parse
ParseTopStatement ==
    /\ status = "parse"
    /\ TokAt(tokens, parser_pos).type # "EOF"
    /\ \E s \in {ParseStatement(tokens, parser_pos)} :
          IF s.err # ""
          THEN /\ status' = s.err
               /\ errLine' = s.line
               /\ parser_pos' = s.pos
               /\ UNCHANGED program
          ELSE /\ program' = IF s.node = NoNode THEN program
                             ELSE Append(program, s.node)
               /\ parser_pos' = SkipNewlines(tokens, s.pos)
               /\ UNCHANGED <<status, errLine>>
    /\ ParseFixed

\* the loop of parse is over: the Program goes back to compile_source
ParseReturn ==
    /\ status = "parse"
    /\ TokAt(tokens, parser_pos).type = "EOF"
    /\ status' = "idle"
    /\ UNCHANGED <<program, parser_pos, errLine>>
    /\ ParseFixed

\* Token lists handed to the parser: every list of at most MaxTokens tokens
\* of Kinds, at top level and inside an open if body, closed by EOF, and
\* longer lists with nested, closed and unclosed blocks.
MaxTokens == 3

Kinds ==
    {"IDENT", "INT", "STRING", "PRINT", "ASSIGN_TSUGU", "INCREMENT", "INPUT",
     "IF", "ELIF", "ELSE", "WHILE", "LPAREN", "RPAREN", "LBRACE", "RBRACE",
     "NEWLINE", "EQ", "CATCH", "COMMENT", "PROGRAM_END", "DECLARE_DA",
     "DECLARE_REVEAL", "FN_PREFIX", "FN_GA", "FN_RUNDA"}

ValueOf(ty) ==
    CASE ty \in {"IDENT", "DECLARE_DA", "DECLARE_REVEAL"} -> <<"x">>
      [] ty = "INT" -> <<"1">>
      [] ty = "STRING" -> <<"s">>
      [] OTHER -> <<>>

\* the tokens of the types tys, all of line 1, and EOF if closed
TokensOf(tys, closed) ==
    [i \in 1..Len(tys) |-> Token(tys[i], ValueOf(tys[i]), 1)]
        \o (IF closed THEN <<EofToken(1)>> ELSE <<>>)

IfOpen == <<"IF", "LPAREN", "IDENT", "RPAREN", "LBRACE", "NEWLINE">>
XPrint == <<"IDENT", "PRINT", "NEWLINE">>
FnOpen == <<"FN_PREFIX", "IDENT", "FN_GA", "IDENT", "IDENT", "FN_RUNDA",
            "LBRACE", "NEWLINE">>
WhileOpen == <<"WHILE", "LPAREN", "IDENT", "EQ", "INT", "RPAREN", "LBRACE",
               "NEWLINE">>
Close == <<"RBRACE", "NEWLINE">>

LongLists ==
    { IfOpen \o XPrint \o <<"RBRACE", "ELIF", "LPAREN", "IDENT", "EQ", "INT",
                            "RPAREN", "LBRACE", "NEWLINE", "RBRACE", "ELSE",
                            "LBRACE", "NEWLINE">> \o XPrint \o Close \o XPrint,
      FnOpen \o WhileOpen \o XPrint \o Close \o XPrint \o Close \o XPrint,
      FnOpen \o IfOpen \o XPrint,
      WhileOpen \o XPrint \o XPrint,
      IfOpen \o IfOpen \o Close \o XPrint,
      IfOpen \o XPrint \o <<"RBRACE", "ELSE", "LBRACE", "NEWLINE">> \o XPrint,
      IfOpen \o XPrint \o <<"RBRACE", "CATCH", "IDENT", "LBRACE", "NEWLINE">>
          \o Close }

ElifOpen == <<"ELIF", "LPAREN", "IDENT", "RPAREN", "LBRACE", "NEWLINE">>
ElseOpen == <<"ELSE", "LBRACE", "NEWLINE">>

\* if statements with their clauses in the order if, elif, else
OrderedClauses ==
    { IfOpen \o XPrint \o Close \o ElifOpen \o XPrint \o Close \o ElifOpen
          \o Close \o ElseOpen \o XPrint \o Close \o XPrint,
      IfOpen \o IfOpen \o Close \o ElifOpen \o XPrint \o Close \o Close
          \o ElseOpen \o XPrint \o Close,
      IfOpen \o Close \o ElifOpen \o XPrint }

\* an ELIF after the ELSE, a second ELSE, an ELIF and an ELSE after a while
\* block, an ELIF with a statement between it and the if block
MisplacedClauses ==
    { IfOpen \o Close \o ElseOpen \o Close \o ElifOpen \o Close,
      IfOpen \o Close \o ElseOpen \o XPrint \o Close \o ElseOpen \o Close,
      WhileOpen \o Close \o ElifOpen \o Close,
      WhileOpen \o Close \o ElseOpen \o Close,
      IfOpen \o Close \o XPrint \o ElifOpen \o Close }

\* print statements of a chain of three primaries, bare and with one pair
\* of parentheses on either side, for every pair of operators
ExprChains ==
    UNION { { <<"IDENT", a, "INT", b, "STRING", "PRINT">>,
              <<"IDENT", a, "LPAREN", "INT", b, "STRING", "RPAREN", "PRINT">>,
              <<"LPAREN", "IDENT", a, "INT", "RPAREN", b, "STRING", "PRINT">> } :
            a \in OpTypes, b \in OpTypes }

\* statements of a name and its keyword, assignments, and expressions with
\* nothing a statement ends with behind them
ExprStatements ==
    { <<"IDENT", k, "NEWLINE", "IDENT", "PRINT", "NEWLINE">> :
          k \in {"INCREMENT", "DECREMENT", "INPUT"} }
      \cup { <<"IDENT", "EQ", "INT", "ASSIGN_TSUGU", "IDENT", "NEWLINE",
               "NEWLINE", "IDENT", "DECREMENT">>,
             <<"IDENT", "EQ", "INT", "ASSIGN_TSUGU", "INT", "NEWLINE">>,
             <<"INT", "DECREMENT", "NEWLINE">>,
             <<"IDENT", "EQ", "INT", "NEWLINE", "PRINT">>,
             <<"IDENT", "EQ", "INT", "DECREMENT">> }

TokenLists ==
    { TokensOf(pre \o tys, TRUE) :
          pre \in {<<>>, IfOpen}, tys \in SeqsUpTo(Kinds, MaxTokens) }
        \cup { TokensOf(tys, TRUE) :
                   tys \in LongLists \cup OrderedClauses \cup MisplacedClauses
                               \cup ExprChains \cup ExprStatements }
        \cup { TokensOf(tys, FALSE) : tys \in {XPrint, IfOpen \o XPrint} }

\* Lexer.tokenize has returned tokens
InitOfTokens(lists) ==
    /\ tokens \in lists
    /\ status = "tokens"
    /\ expr = <<>>
    /\ line_num = 0
    /\ pos = 0
    /\ errLine = 0
    /\ program = <<>>
    /\ work = <<>>
    /\ module = EmptyModule
    /\ builder = NoBuilder
    /\ variables = NoVars
    /\ functions = [n \in {} |-> 0]
    /\ string_counter = 0
    /\ NotRunning
    /\ emitted = <<>>
    /\ NoSource

InitParse == InitOfTokens(TokenLists)

NextParse ==
    \/ ParseEnter
    \/ ParseTopStatement
    \/ ParseReturn

SpecParse == InitParse /\ [][NextParse]_vars

\* parse is a loop the interpreter runs to its end
SpecParseFair == InitParse /\ [][NextParse]_vars /\ WF_vars(NextParse)

----------------------------------------------------------------------------
(* Claims about the parser.                                                 *)

\* the token types a statement can start with
StatementStarts ==
    {"COMMENT", "PROGRAM_START", "PROGRAM_END", "THROW", "DECLARE_DA",
     "FN_PREFIX", "IF", "WHILE", "INT", "FLOAT", "STRING", "IDENT", "LPAREN"}

\* _parse_statement, called at any position of the list, raises or advances
EveryStatementAdvances ==
    \A p \in 0..Len(tokens) :
        LET s == ParseStatement(tokens, p)
        IN  s.err = "ParseError" \/ s.pos > p

\* _parse_statement, called at a token no statement starts with, raises
StrayTokenRaises ==
    \A p \in 0..Len(tokens) :
        TokAt(tokens, p).type \notin StatementStarts
            => ParseStatement(tokens, p).err = "ParseError"

\* a turn of the loop of parse ends the loop or moves the position forward
TurnAdvances ==
    status = "parse" => status' # "parse" \/ parser_pos' > parser_pos

\* parse has returned a Program or raised ParseError
ParseOver == status \in {"idle", "ParseError"}

\* C19: Parser.parse terminates on every finite token list: every call of
\* _parse_statement raises ParseError or advances the position by at least
\* one token, the position never decreases nor passes the end of the list,
\* and a token that cannot start a statement (RBRACE, ELIF, ELSE, CATCH,
\* RPAREN, a lone keyword) raises ParseError instead of being skipped or
\* looping.
C19_ParseTerminates ==
    /\ [](EveryStatementAdvances /\ StrayTokenRaises)
    /\ [](parser_pos <= Len(tokens))
    /\ [][parser_pos' >= parser_pos /\ TurnAdvances]_vars
    /\ <>ParseOver

\* a statement has been parsed and the next one starts with a closing brace:
\* parse has raised ParseError there
C19_Witness ==
    /\ status = "ParseError"
    /\ program # <<>>
    /\ TokAt(tokens, parser_pos).type = "RBRACE"

\* the statements _parse_block goes through from p: the position where the
\* loop stops and the number of nodes it has by then, if all of them parse
RECURSIVE StatementsFrom(_, _, _)
StatementsFrom(toks, p, n) ==
    IF TokAt(toks, p).type \in {"RBRACE", "EOF"} THEN Ok(n, p)
    ELSE Then(ParseStatement(toks, p), LAMBDA s :
         StatementsFrom(toks, SkipNewlines(toks, s.pos),
                        IF s.node = NoNode THEN n ELSE n + 1))

\* the first RBRACE from q that closes no brace opened since, or EOF
RECURSIVE FirstClose(_, _, _)
FirstClose(toks, q, depth) ==
    LET ty == TokAt(toks, q).type
    IN  IF ty = "EOF" \/ (ty = "RBRACE" /\ depth = 0) THEN q
        ELSE FirstClose(toks, q + 1,
                        CASE ty = "LBRACE" -> depth + 1
                          [] ty = "RBRACE" -> depth - 1
                          [] OTHER -> depth)

\* a block whose statements all parse ends at the first RBRACE of its level
\* or at EOF, takes that one brace if there is one, and returns the
\* statements without ParseError
BlockEndsAtCloseOrEof ==
    \A p \in 0..Len(tokens) :
        \A c \in {StatementsFrom(tokens, p, 0)}, b \in {ParseBlock(tokens, p)} :
            c.err = "" =>
              /\ b.err = ""
              /\ Len(b.node) = c.node
              /\ c.pos = FirstClose(tokens, p, 0)
              /\ b.pos = SkipNewlines(tokens,
                             IF TokAt(tokens, c.pos).type = "RBRACE"
                             THEN c.pos + 1 ELSE c.pos)

\* programs whose last if, while or function body has no closing brace
UnclosedBodies ==
    { TokensOf(tys, TRUE) :
          tys \in {IfOpen \o XPrint, WhileOpen \o XPrint \o XPrint,
                   FnOpen \o IfOpen \o XPrint} }

\* C20: a block ends at the first RBRACE at its nesting level or at EOF:
\* _parse_block consumes exactly one RBRACE when it stops on one, and when it
\* stops on EOF it returns the statements parsed so far without ParseError,
\* so a program with an unclosed if/while/function body parses.
C20_BlockEndsAtBraceOrEof ==
    /\ BlockEndsAtCloseOrEof
    /\ tokens \in UnclosedBodies => status # "ParseError"

\* a program whose if body is not closed has been parsed, body included
C20_Witness ==
    /\ status = "idle"
    /\ \A j \in 1..Len(tokens) : tokens[j].type # "RBRACE"
    /\ \E i \in 1..Len(program) :
          /\ program[i].k = "IfStatement"
          /\ program[i].then_body # <<>>

----------------------------------------------------------------------------
(* Compiler.compile_source (tough/compiler.py): the lexer over the whole    *)
(* source, the parser over the whole token list, the generator over the     *)
(* whole Program.  A stage begins where the one before has returned; an     *)
(* exception of a stage propagates, so nothing follows it.                  *)

DeclareX == <<"x", HDa, " ", "x", HGa, PReveal>>
AssignX == <<"1", " ", PAssign, " ", "x">>
Print1 == <<"1", " ", PPrint>>
PrintString == <<OpenQuote, "a", CloseQuote, " ", PPrint>>
PrintRemainder == <<"(", "x", ")", " ", "%", " ", "2", " ", PPrint>>
InputX == <<"x", " ", PInput>>
IncrementX == <<"x", " ", PIncrement>>
DecrementX == <<"x", " ", FwOpen, KAi, FwClose>>
If1Line == <<PIf, " ", "(", "1", ")", " ", "{">>
ElifLine == <<PElif, " ", "(", "1", " ">> \o KwLT \o <<" ", "2", ")", " ", "{">>
ElseLine == ElsePhrase \o <<" ", "{">>
WhileLine == <<PWhile, DQuote, "0", PTimes, DQuote, " ", "{">>
FnLine == <<PFn, " ", "f", HGa, " ", "(", "y", ")", PRunda, " ", "{">>
CatchLine == <<"}", " ", "e", " ", PCatch, " ", "{">>
CloseLine == <<"}">>
EndLine == <<PEnd>>
ThrowLine == <<PThrow, " ", POmae>>
CommentLine == <<FwOpen, "x", PComment, FwClose>>

\* lines the lexer cannot tokenize: an unrecognized line, an unrecognized
\* character, a string literal that is not closed
LexErrorLines ==
    { <<"!">>, <<"x", "!", " ", PPrint>>, <<OpenQuote, "a", " ", PPrint>> }

\* lines that tokenize and start no statement: two operands in a row, a
\* closing brace with a catch header
ParseErrorLines == { <<"x", " ", "x", " ", PPrint>>, CatchLine }

\* a line that parses and cannot be lowered where x is not declared
UndeclaredPrint == XPrints

PipeLines ==
    { DeclareX, AssignX, Print1, PrintString, PrintRemainder, InputX,
      IncrementX, DecrementX, If1Line, WhileLine, FnLine, CloseLine, EndLine,
      ThrowLine, CommentLine, UndeclaredPrint, <<>> }
        \cup LexErrorLines \cup ParseErrorLines

MaxSourceLines == 2

\* longer sources: every compound statement closed, and a catch header at
\* top level, closing an if, a while inside a function, an else, an elif,
\* with its own body closed or left open
LongSources ==
    { <<If1Line, Print1, CloseLine, ElifLine, Print1, CloseLine, ElseLine,
        Print1, CloseLine>>,
      <<DeclareX, WhileLine, IncrementX, CloseLine, XPrints>>,
      <<FnLine, Print1, CloseLine, Print1>>,
      <<If1Line, Print1, CatchLine, Print1, CloseLine>>,
      <<If1Line, Print1, CatchLine, Print1>>,
      <<FnLine, WhileLine, CatchLine, Print1, CloseLine>>,
      <<If1Line, CloseLine, ElseLine, CatchLine, Print1>>,
      <<If1Line, CloseLine, ElifLine, CatchLine, CloseLine>>,
      <<Print1, CatchLine, Print1>>,
      <<XPrints, If1Line, CatchLine, <<"!">>>> }

\* function headers with two parameters, a blank between the parentheses,
\* a lone comma, a blank last piece, and nothing between the parentheses
FnTwoLine ==
    <<PFn, " ", "f", HGa, " ", "(", "y", ",", "x", ")", PRunda, " ", "{">>
FnBlankLine == <<PFn, " ", "f", HGa, " ", "(", " ", ")", PRunda, " ", "{">>
FnCommaLine == <<PFn, " ", "f", HGa, " ", "(", ",", ")", PRunda, " ", "{">>
FnBlankLastLine ==
    <<PFn, " ", "f", HGa, " ", "(", "y", ",", " ", ")", PRunda, " ", "{">>
FnNoParamsLine == <<PFn, " ", "f", HGa, " ", "(", ")", PRunda, " ", "{">>

HeaderSources ==
    { <<h, Print1, CloseLine>> :
        h \in {FnTwoLine, FnBlankLine, FnCommaLine, FnBlankLastLine,
               FnNoParamsLine} }
      \cup { <<Print1, FnNoParamsLine>> }

PipeSources ==
    SeqsUpTo(PipeLines, MaxSourceLines) \cup LongSources \cup HeaderSources

InitCompile == InitOfSources(PipeSources)

NextCompile ==
    \/ NextTokenize
    \/ NextParse
    \/ Next

SpecCompile == InitCompile /\ [][NextCompile]_vars

----------------------------------------------------------------------------
(* Claims about compile_source.                                             *)

LexStage == {"tokenize", "lex", "lexed"}
ParseStage == {"tokens", "parse"}
GenStage == {"idle", "gen", "done"}
Running == LexStage \cup ParseStage \cup GenStage

\* a stage begins where the stage before has returned: the parser once
\* tokenize has gone through every line, the generator once parse has
\* reached EOF
StagesInOrder ==
    /\ status' = "tokens" => status \in LexStage /\ line_num = Len(lines)
    /\ status' = "parse" => status \in ParseStage
    /\ status' = "idle" =>
          status = "parse" /\ TokAt(tokens, parser_pos).type = "EOF"
    /\ status' = "gen" => status \in {"idle", "gen"}
    /\ status' = "done" => status = "gen"

\* an exception ends the compilation: no step follows it
ErrorAborts == status \in Running

\* nothing of a later stage exists when a stage has raised
NoLaterStage ==
    /\ status = "LexerError" =>
          parser_pos = 0 /\ program = <<>> /\ work = <<>>
              /\ module = EmptyModule
    /\ status = "ParseError" => work = <<>> /\ module = EmptyModule

HasLine(ls) == \E i \in 1..Len(lines) : lines[i] \in ls

\* C11: compile_source runs the stages in the order lex (whole source),
\* parse (whole token list), codegen, and the first error aborts the
\* compilation with no later stage started and no module returned: a source
\* with a lexer error on any line raises LexerError even when an earlier
\* line would cause a ParseError or CodeGenError, and a source with a parse
\* error raises ParseError even when an earlier statement would cause a
\* CodeGenError.
C11_StagesInOrderFirstErrorAborts ==
    /\ [][StagesInOrder /\ ErrorAborts]_vars
    /\ []NoLaterStage
    /\ [](HasLine(LexErrorLines) => status \in LexStage \cup {"LexerError"})
    /\ [](HasLine(ParseErrorLines) /\ ~HasLine(LexErrorLines)
            => status \in LexStage \cup ParseStage \cup {"ParseError"})

\* the same with the exception an unclosed string literal raises counted
\* among the lexer's
StagesInOrderUpToValueError ==
    /\ [][StagesInOrder /\ ErrorAborts]_vars
    /\ []NoLaterStage
    /\ [](HasLine(LexErrorLines)
            => status \in LexStage \cup {"LexerError", "ValueError"})
    /\ [](HasLine(ParseErrorLines) /\ ~HasLine(LexErrorLines)
            => status \in LexStage \cup ParseStage \cup {"ParseError"})

\* a line of the source is tokenized as a catch header
HasCatch ==
    \E i \in 1..Len(lines) :
        Strip(lines[i]) # <<>> /\ Classify(Strip(lines[i])) = "catch"

----------------------------------------------------------------------------
(* The interactive shell (tough/repl.py).  status is "prompt" at input(),   *)
(* "left" once the loop is left by break; in between it is the state of     *)
(* compiler.run(source): compile_source, then the compiled main.            *)

\* str.count of a one-character string
Count(line, c) == Cardinality({i \in 1..Len(line) : line[i] = c})

\* "\n".join(buffer).splitlines(): a last line that is empty is not a line
JoinedLines(buf) ==
    IF buf[Len(buf)] = <<>> THEN SubSeq(buf, 1, Len(buf) - 1) ELSE buf

\* (variant: no source counts as empty)
BlankSource_Never(buf) == FALSE

\* "\n".join(buffer).strip() is empty
BlankSource(buf) == \A i \in 1..Len(buf) : Strip(buf[i]) = <<>>

Remainder == <<"(", "3", ")", " ", "%", " ", "2", " ", PPrint>>

\* what the user types, one input at a time: single lines, and blocks typed
\* line by line
Entries ==
    { <<l>> : l \in { Print1, PrintString, Remainder, DeclareX, AssignX,
                      InputX, IncrementX, XPrints, EndLine, ThrowLine,
                      CommentLine, CloseLine, <<>>, <<" ">> }
                    \cup LexErrorLines \cup ParseErrorLines }
        \cup { <<If1Line, AssignX, XPrints, IncrementX, DecrementX, CloseLine>>,
               <<If1Line, <<>>, <<"!">>, CloseLine>>,
               <<WhileLine, Print1, CloseLine>>,
               <<FnLine, If1Line, CloseLine, ElifLine, CloseLine, CloseLine>>,
               <<If1Line, Print1, CatchLine, CloseLine>>,
               <<If1Line, EndLine, CloseLine>> }

\* the exceptions of compiler.run that the handlers of repl catch
Caught ==
    {"LexerError", "ParseError", "CodeGenError", "ValueError", "TypeError",
     "AssertionError", "DuplicatedNameError", "RuntimeError"}

\* repl() has printed its banner: a Compiler, an empty buffer, depth 0
InitRepl ==
    /\ status = "prompt"
    /\ buffer = <<>>
    /\ brace_depth = 0
    /\ lines = <<>>
    /\ after_expr = <<>>
    /\ parser_pos = 0
    /\ NotLexing
    /\ errLine = 0
    /\ program = <<>>
    /\ work = <<>>
    /\ module = EmptyModule
    /\ builder = NoBuilder
    /\ variables = NoVars
    /\ functions = [n \in {} |-> 0]
    /\ string_counter = 0
    /\ NotRunning
    /\ emitted = <<>>

\* input() raises EOFError or KeyboardInterrupt: break
ReplEnd ==
    /\ status = "prompt"
    /\ status' = "left"
    /\ UNCHANGED <<genVars, runVars, emitted, lexVars, frontVars>>

\* input() returns a line: it is counted and buffered, and unless a brace
\* is open the buffer is joined, cleared and, if not blank, handed to
\* compiler.run, which constructs the Lexer; nothing is left of the objects
\* of the run before
ReplLine ==
    /\ status = "prompt"
    /\ \E e \in Entries :
          /\ Len(buffer) < Len(e)
          /\ SubSeq(e, 1, Len(buffer)) = buffer
          /\ LET line == e[Len(buffer) + 1]
                 depth == brace_depth + Count(line, "{") - Count(line, "}")
                 buf == Append(buffer, line)
             IN  IF depth > 0
                 THEN /\ brace_depth' = depth
                      /\ buffer' = buf
                      /\ UNCHANGED <<status, lines>>
                 ELSE /\ brace_depth' = 0
                      /\ buffer' = <<>>
                      /\ IF BlankSource(buf) THEN UNCHANGED <<status, lines>>
                         ELSE /\ status' = "tokenize"
                              /\ lines' = JoinedLines(buf)
    /\ expr' = <<>>
    /\ line_num' = 0
    /\ pos' = 0
    /\ tokens' = <<>>
    /\ after_expr' = <<>>
    /\ parser_pos' = 0
    /\ errLine' = 0
    /\ program' = <<>>
    /\ work' = <<>>
    /\ module' = EmptyModule
    /\ builder' = NoBuilder
    /\ variables' = NoVars
    /\ functions' = [n \in {} |-> 0]
    /\ string_counter' = 0
    /\ pc' = [blk |-> 0, idx |-> 0]
    /\ regs' = NoRegs
    /\ mem' = <<>>
    /\ output' = <<>>
    /\ stdin' = <<>>
    /\ trace' = <<>>
    /\ exitCode' = 0
    /\ steps' = 0
    /\ UNCHANGED emitted

\* `except (LexerError, ParseError, CodeGenError)` and `except Exception`:
\* the message is printed and the loop goes on
ReplCaught ==
    /\ status \in Caught
    /\ status' = "prompt"
    /\ UNCHANGED <<genVars, runVars, emitted, lexVars, frontVars>>

\* compiler.run has returned main's result: the loop goes on
ReplReturned ==
    /\ status = "returned"
    /\ status' = "prompt"
    /\ UNCHANGED <<genVars, runVars, emitted, lexVars, frontVars>>

NextRepl ==
    \/ ReplEnd
    \/ ReplLine
    \/ ReplCaught
    \/ ReplReturned
    \/ NextTokenize
    \/ NextParse
    \/ NextRun

SpecRepl == InitRepl /\ [][NextRepl]_vars

----------------------------------------------------------------------------
(* Claims about the interactive shell.                                      *)

\* compiler.run is under way or has ended
Attempting == status \notin {"prompt", "left"}

\* compiler.run has ended: by an exception, by returning, or with the
\* process (exit called by the compiled code, a fatal signal)
AttemptOver == status \in Caught \cup {"returned", "exited", "SIGFPE"}

\* the loop is left from input() only, by EOFError or KeyboardInterrupt
LeftAtPrompt == status' = "left" => status = "prompt"

\* an exception of compiler.run is followed by the prompt
CaughtThenPrompt == status \in Caught => status' = "prompt"

\* C14: in the interactive shell a LexerError, ParseError or CodeGenError
\* (or any other Exception) raised by compiling or running the buffered
\* input does not end the session: after every compile attempt, successful
\* or failed, the line buffer is empty, the brace depth is 0 and the loop
\* returns to the primary prompt; only end-of-input, keyboard interrupt or
\* SystemExit leave the loop.
C14_SessionSurvivesEveryAttempt ==
    /\ [](Attempting => buffer = <<>> /\ brace_depth = 0)
    /\ [](AttemptOver => ENABLED (ReplCaught \/ ReplReturned))
    /\ [][LeftAtPrompt]_vars

\* the same for the attempts that end in an exception
SessionSurvivesExceptions ==
    /\ [](Attempting => buffer = <<>> /\ brace_depth = 0)
    /\ [](status \in Caught => ENABLED ReplCaught)
    /\ [][CaughtThenPrompt]_vars
    /\ [][LeftAtPrompt]_vars

----------------------------------------------------------------------------
(* The clauses of an if statement.                                          *)

\* the first LBRACE at or after q
RECURSIVE HeaderBrace(_, _)
HeaderBrace(toks, q) ==
    IF TokAt(toks, q).type \in {"LBRACE", "EOF"} THEN q
    ELSE HeaderBrace(toks, q + 1)

\* where the block opened by the LBRACE at b is over: after the RBRACE that
\* closes it and the NEWLINE tokens behind it, or at EOF
AfterBlock(toks, b) ==
    LET c == FirstClose(toks, b + 1, 0)
    IN  SkipNewlines(toks, IF TokAt(toks, c).type = "RBRACE" THEN c + 1 ELSE c)

\* the positions of the ELIF headers from q on, each following the end of
\* the block before it
RECURSIVE ElifHeaders(_, _)
ElifHeaders(toks, q) ==
    IF TokAt(toks, q).type # "ELIF" THEN <<>>
    ELSE <<q>> \o ElifHeaders(toks, AfterBlock(toks, HeaderBrace(toks, q)))

\* where the chain of ELIF headers from q stops
ChainEnd(toks, q) ==
    LET hs == ElifHeaders(toks, q)
    IN  IF hs = <<>> THEN q
        ELSE AfterBlock(toks, HeaderBrace(toks, hs[Len(hs)]))

\* an if statement that parses has one clause per ELIF header of its chain,
\* each with the condition and the block of its header, the block of the
\* ELSE that follows the chain as else_body (none: the empty list), and
\* ends there
IfTakesItsClauses ==
    \A p \in 0..Len(tokens) :
        TokAt(tokens, p).type = "IF" =>
          \A r \in {ParseIf(tokens, p)} :
            r.err = "" =>
              LET first == AfterBlock(tokens, HeaderBrace(tokens, p))
                  hs == ElifHeaders(tokens, first)
                  q == ChainEnd(tokens, first)
                  else_here == TokAt(tokens, q).type = "ELSE"
              IN  /\ Len(r.node.elif_clauses) = Len(hs)
                  /\ \A i \in 1..Len(hs) :
                        /\ r.node.elif_clauses[i][1]
                             = ParseExpression(tokens, hs[i] + 2).node
                        /\ r.node.elif_clauses[i][2]
                             = ParseBlock(tokens,
                                   SkipNewlines(tokens,
                                       HeaderBrace(tokens, hs[i]) + 1)).node
                  /\ r.node.else_body
                       = IF else_here
                         THEN ParseBlock(tokens,
                                         SkipNewlines(tokens, q + 2)).node
                         ELSE <<>>
                  /\ r.pos = IF else_here THEN AfterBlock(tokens, q + 1)
                             ELSE q

\* the ELIF and ELSE tokens the if statements that parse have taken
AttachedClauses ==
    UNION { LET first == AfterBlock(tokens, HeaderBrace(tokens, p))
                q == ChainEnd(tokens, first)
            IN  Range(ElifHeaders(tokens, first))
                  \cup (IF TokAt(tokens, q).type = "ELSE" THEN {q} ELSE {}) :
            p \in { p \in 0..Len(tokens) :
                      /\ TokAt(tokens, p).type = "IF"
                      /\ ParseIf(tokens, p).err = "" } }

\* a statement cannot start with ELIF or ELSE, and a Program is returned
\* only if every ELIF and ELSE belongs to an if statement
StrayClauseRaises ==
    /\ \A p \in 0..Len(tokens) :
          TokAt(tokens, p).type \in {"ELIF", "ELSE"}
              => ParseStatement(tokens, p).err = "ParseError"
    /\ status = "idle" =>
          \A p \in 0..Len(tokens) :
              TokAt(tokens, p).type \in {"ELIF", "ELSE"}
                  => p \in AttachedClauses
    /\ (tokens \in { TokensOf(tys, TRUE) : tys \in MisplacedClauses }
          /\ status \notin {"tokens", "parse"})
         => /\ status = "ParseError"
            /\ TokAt(tokens, parser_pos).type \in {"ELIF", "ELSE"}

\* C21: clauses are attached only in the order if, zero or more elif, at
\* most one else: the IfStatement has one elif clause per ELIF header that
\* follows the closing brace of the block before it, and else_body holds the
\* statements of the ELSE block that follows; an ELIF after the ELSE, a
\* second ELSE, or an ELIF/ELSE with no if block before it belongs to no If
\* and raises ParseError.
C21_ClausesInOrderIfElifElse ==
    /\ IfTakesItsClauses
    /\ StrayClauseRaises

\* an if statement with two elif clauses and an else body has been parsed
C21_Witness ==
    /\ status = "idle"
    /\ \E i \in 1..Len(program) :
          /\ program[i].k = "IfStatement"
          /\ Len(program[i].elif_clauses) = 2
          /\ program[i].else_body # <<>>

----------------------------------------------------------------------------
(* The grouping of expressions.                                             *)

\* the token types of the primaries of one token
Atoms == {"INT", "FLOAT", "STRING", "IDENT"}

\* tokens p, p + 2, ... are n primaries of one token each, with operators
\* between them and no operator after the last
IsChain(toks, p, n) ==
    /\ \A i \in 0..(n - 1) : TokAt(toks, p + 2 * i).type \in Atoms
    /\ \A i \in 1..(n - 1) : TokAt(toks, p + 2 * i - 1).type \in OpTypes
    /\ TokAt(toks, p + 2 * n - 1).type \notin OpTypes

\* the chain of the first n primaries from p, grouped to the left: the
\* last operator applied to the chain before it and the last primary
RECURSIVE LeftGrouped(_, _, _)
LeftGrouped(toks, p, n) ==
    IF n = 1 THEN ParsePrimary(toks, p).node
    ELSE BinaryOp(OpOf(TokAt(toks, p + 2 * n - 3).type),
                  LeftGrouped(toks, p, n - 1),
                  ParsePrimary(toks, p + 2 * n - 2).node,
                  TokAt(toks, p + 2 * n - 3).line)

\* the longest chain a list of the universe holds
MaxChain == 3

\* a chain of primaries is grouped to the left whatever its operators are
ChainsGroupLeft ==
    \A p \in 0..Len(tokens), n \in 1..MaxChain :
        IsChain(tokens, p, n)
            => ParseExpression(tokens, p)
                 = Ok(LeftGrouped(tokens, p, n), p + 2 * n - 1)

\* p1 op1 ( p2 op2 p3 ) keeps the group of the parentheses as the right
\* operand; ( p1 op1 p2 ) op2 p3 is the grouping of the bare chain
ParenthesesGroup ==
    \A p \in 0..Len(tokens) :
        /\ (/\ TokAt(tokens, p).type \in Atoms
            /\ TokAt(tokens, p + 1).type \in OpTypes
            /\ TokAt(tokens, p + 2).type = "LPAREN"
            /\ IsChain(tokens, p + 3, 2)
            /\ TokAt(tokens, p + 6).type = "RPAREN"
            /\ TokAt(tokens, p + 7).type \notin OpTypes)
             => ParseExpression(tokens, p)
                  = Ok(BinaryOp(OpOf(TokAt(tokens, p + 1).type),
                                ParsePrimary(tokens, p).node,
                                LeftGrouped(tokens, p + 3, 2),
                                TokAt(tokens, p + 1).line), p + 7)
        /\ (/\ TokAt(tokens, p).type = "LPAREN"
            /\ IsChain(tokens, p + 1, 2)
            /\ TokAt(tokens, p + 4).type = "RPAREN"
            /\ TokAt(tokens, p + 5).type \in OpTypes
            /\ TokAt(tokens, p + 6).type \in Atoms
            /\ TokAt(tokens, p + 7).type \notin OpTypes)
             => ParseExpression(tokens, p)
                  = Ok(BinaryOp(OpOf(TokAt(tokens, p + 5).type),
                                LeftGrouped(tokens, p + 1, 2),
                                ParsePrimary(tokens, p + 6).node,
                                TokAt(tokens, p + 5).line), p + 7)

\* C22: expressions are a left-associative chain at a single precedence
\* level: p1 op1 p2 op2 p3 with op1, op2 in {EQ, NEQ, GT, LT, PERCENT} is
\* parsed as BinaryOp(op2, BinaryOp(op1, p1, p2), p3) whatever the operators
\* are, and only parentheses change the grouping.
C22_LeftAssociativeSingleLevel ==
    /\ ChainsGroupLeft
    /\ ParenthesesGroup

\* x == 1 % s has been parsed as (x == 1) % s
C22_Witness ==
    /\ status = "idle"
    /\ Len(program) = 1
    /\ program[1].k = "PrintStatement"
    /\ program[1].value.k = "BinaryOp"
    /\ program[1].value.op = "%"
    /\ program[1].value.left.k = "BinaryOp"
    /\ program[1].value.left.op = "=="
    /\ program[1].value.right.k = "StringLiteral"

----------------------------------------------------------------------------
(* The statements that start with an expression.                            *)

\* the keywords that follow a bare name, and the node each one gives
NameKeywords ==
    [INCREMENT |-> "IncrementStatement", DECREMENT |-> "DecrementStatement",
     INPUT |-> "InputStatement"]

\* the tokens from p up to q, q excluded, are NEWLINE tokens, and the one at
\* q is not
OnlyNewlinesBetween(toks, p, q) ==
    /\ q >= p
    /\ \A j \in p..(q - 1) : TokAt(toks, j).type = "NEWLINE"
    /\ TokAt(toks, q).type # "NEWLINE"

\* _parse_expr_statement at p: a name followed by INCREMENT, DECREMENT or
\* INPUT gives the node of the keyword for that name and takes the two
\* tokens (and, as every statement does, the NEWLINE tokens behind them)
NameKeywordTakesTwoTokens ==
    \A p \in 0..Len(tokens) :
        LET tok == TokAt(tokens, p)
            next_tok == TokAt(tokens, p + 1)
        IN  (tok.type = "IDENT" /\ next_tok.type \in DOMAIN NameKeywords) =>
              \A r \in {ParseExprStatement(tokens, p)} :
                  /\ r.err = ""
                  /\ r.node = [k |-> NameKeywords[next_tok.type],
                               name |-> Join(tok.value), line |-> tok.line]
                  /\ OnlyNewlinesBetween(tokens, p + 2, r.pos)

\* otherwise an expression is parsed and the token behind it decides
ExpressionThenKeyword ==
    \A p \in 0..Len(tokens) :
        LET tok == TokAt(tokens, p)
            next_tok == TokAt(tokens, p + 1)
        IN  ~(tok.type = "IDENT" /\ next_tok.type \in DOMAIN NameKeywords) =>
              \A r \in {ParseExprStatement(tokens, p)},
                 e \in {ParseExpression(tokens, p)} :
                  IF e.err # "" THEN r = e
                  ELSE LET cur == TokAt(tokens, e.pos)
                           var_tok == TokAt(tokens, e.pos + 1)
                       IN  CASE cur.type = "PRINT" ->
                                  /\ r.err = ""
                                  /\ r.node = [k |-> "PrintStatement",
                                               value |-> e.node,
                                               line |-> tok.line]
                                  /\ OnlyNewlinesBetween(tokens, e.pos + 1,
                                                         r.pos)
                             [] cur.type = "ASSIGN_TSUGU"
                                  /\ var_tok.type = "IDENT" ->
                                  /\ r.err = ""
                                  /\ r.node = [k |-> "AssignStatement",
                                               name |-> Join(var_tok.value),
                                               value |-> e.node,
                                               line |-> tok.line]
                                  /\ OnlyNewlinesBetween(tokens, e.pos + 2,
                                                         r.pos)
                             [] OTHER -> r.err = "ParseError"

\* an expression with NEWLINE or EOF behind it is no statement
ExpressionAloneRaises ==
    \A p \in 0..Len(tokens) :
        \A e \in {ParseExpression(tokens, p)} :
            (e.err = "" /\ TokAt(tokens, e.pos).type \in {"NEWLINE", "EOF"})
                => ParseExprStatement(tokens, p).err = "ParseError"

----------------------------------------------------------------------------
(* The slot of an assignment.                                               *)

\* the alloca instructions of module m: function, block and result number
AllocaSites(m) ==
    UNION { UNION { { <<f, b, m.funcs[f].blocks[b].instrs[i].dst>> :
                        i \in { i \in 1..Len(m.funcs[f].blocks[b].instrs) :
                                  m.funcs[f].blocks[b].instrs[i].op
                                      = "alloca" } } :
                    b \in 1..Len(m.funcs[f].blocks) } :
            f \in 1..Len(m.funcs) }

\* the instructions the step has added to the block the builder stands in
Added ==
    LET old == CurBlock(Cur).instrs
        new == module'.funcs[builder.fn].blocks[builder.blk].instrs
    IN  SubSeq(new, builder.anchor + 1,
               builder.anchor + Len(new) - Len(old))

\* the right-hand side of the assignment at hand raises e
ValueRaises(e) == GenExpression(CurStmt.value, Cur).err = e

\* the right-hand side raises CodeGenError: the assignment raises it, no
\* slot is created and the table is as before
FailedValueKeepsTable ==
    (AtStmt({"AssignStatement"}) /\ ValueRaises("CodeGenError")) =>
        /\ status' = "CodeGenError"
        /\ variables' = variables
        /\ AllocaSites(module') = AllocaSites(module)

\* the right-hand side is lowered and the name is unknown: one slot is
\* created, behind the instructions of the right-hand side, and the table
\* gains the name with that slot
UnknownTargetGetsOneSlot ==
    (AtStmt({"AssignStatement"}) /\ ValueRaises("")
        /\ CurStmt.name \notin DOMAIN variables) =>
        /\ DOMAIN variables' = DOMAIN variables \cup {CurStmt.name}
        /\ \A n \in DOMAIN variables : variables'[n] = variables[n]
        /\ Cardinality(AllocaSites(module') \ AllocaSites(module)) = 1
        /\ AllocaSites(module) \subseteq AllocaSites(module')
        /\ \E i \in 1..Len(Added) :
              /\ Added[i].op = "alloca"
              /\ variables'[CurStmt.name] = Reg(PtrI64, Added[i].dst)
              /\ \A j \in 1..Len(Added) :
                    Added[j].op \notin {"alloca", "store"} => j < i
        /\ status' = "gen" =>
              /\ Added[Len(Added)].op = "store"
              /\ Added[Len(Added)].y = variables'[CurStmt.name]

\* the right-hand side is lowered and the name is known: its slot is the
\* one stored to and none is created
KnownTargetKeepsItsSlot ==
    (AtStmt({"AssignStatement"}) /\ ValueRaises("")
        /\ CurStmt.name \in DOMAIN variables) =>
        /\ variables' = variables
        /\ AllocaSites(module') = AllocaSites(module)
        /\ status' = "gen" =>
              /\ Added[Len(Added)].op = "store"
              /\ Added[Len(Added)].y = variables[CurStmt.name]

\* an assignment that reads a name the table does not hold
ReadsUnknown ==
    /\ AtStmt({"AssignStatement"})
    /\ ~(ReadNames(CurStmt.value) \subseteq DOMAIN variables)

AssignStep ==
    /\ FailedValueKeepsTable
    /\ UnknownTargetGetsOneSlot
    /\ KnownTargetKeepsItsSlot
    /\ ReadsUnknown => ValueRaises("CodeGenError")

\* C24: Assign lowers its right-hand side before it looks up or creates the
\* target slot: assigning to an unknown name creates exactly one new slot
\* and adds the name to the table, assigning to a known name reuses the
\* existing slot and creates none, and when the right-hand side raises
\* CodeGenError (a first assignment of x to itself, say) the variable table
\* is left unchanged.
C24_AssignLowersValueBeforeSlot ==
    [][AssignStep]_vars

\* the first assignment of x reads x: CodeGenError, and x is in no table
C24_Witness ==
    /\ status = "CodeGenError"
    /\ Len(program) >= 1
    /\ program[1].k = "AssignStatement"
    /\ ReadNames(program[1].value) = {program[1].name}
    /\ errLine = program[1].line
    /\ variables = NoVars
    /\ AllocaSites(module) = {}

----------------------------------------------------------------------------
(* The value of comparisons and remainders, and the truth of conditions.    *)

\* 1 when the relation holds between the integers l and r, 0 otherwise
Truth(o, l, r) ==
    IF \/ o = "==" /\ l = r
       \/ o = "!=" /\ l # r
       \/ o = ">" /\ l > r
       \/ o = "<" /\ l < r
    THEN 1 ELSE 0

\* the remainder of l by r # 0 with the sign of the dividend: l = k * r + q
\* with q smaller than r in magnitude and not of the sign opposite to l
RemainderOf(l, r) ==
    CHOOSE q \in (-Abs(r))..Abs(r) :
        /\ Abs(q) < Abs(r)
        /\ l >= 0 => q >= 0
        /\ l <= 0 => q <= 0
        /\ \E k \in (-Abs(l))..Abs(l) : l = k * r + q

\* the value of expression e when x holds a
RECURSIVE Meaning(_, _)
Meaning(e, a) ==
    CASE e.k = "IntLiteral" -> e.value
      [] e.k = "Identifier" -> a
      [] e.k = "BinaryOp" ->
            IF e.op = "%"
            THEN RemainderOf(Meaning(e.left, a), Meaning(e.right, a))
            ELSE Truth(e.op, Meaning(e.left, a), Meaning(e.right, a))

\* no remainder by zero in e
RECURSIVE HasMeaning(_, _)
HasMeaning(e, a) ==
    e.k = "BinaryOp" =>
        /\ HasMeaning(e.left, a)
        /\ HasMeaning(e.right, a)
        /\ e.op = "%" => Meaning(e.right, a) # 0

\* what a program of TruthPrograms prints
Expected(st, a) ==
    CASE st.k = "PrintStatement" -> <<PrintedInt(Meaning(st.value, a))>>
      [] st.k = "IfStatement" ->
            <<PrintedInt(IF Meaning(st.condition, a) # 0 THEN 10 ELSE 99)>>
      [] st.k = "WhileStatement" ->
            IF Meaning(st.condition, a) # 0 THEN <<PrintedInt(20)>> ELSE <<>>

IsTruthProgram == program \in { Numbered(p) : p \in TruthPrograms }

TestedExpr ==
    IF program[2].k = "PrintStatement" THEN program[2].value
    ELSE program[2].condition

\* a program of TruthPrograms that has ended printed the value of its
\* condition, or the mark of the body its condition selects
ConditionsMeanNonzero ==
    (IsTruthProgram /\ Ended
        /\ HasMeaning(TestedExpr, program[1].value.value))
        => output = Expected(program[2], program[1].value.value)

\* every icmp of a comparison is widened to i64 by the zext behind it, and
\* every icmp that is not is the test against 0 of the cbr behind it
ComparisonsAreWidened ==
    status \in {"done", "running", "returned", "exited"} =>
      \A f \in 1..Len(module.funcs) :
        \A b \in 1..Len(module.funcs[f].blocks) :
          LET ins == module.funcs[f].blocks[b].instrs
          IN  \A i \in 1..Len(ins) :
                ins[i].op = "icmp" =>
                  /\ ins[i].s \in CmpOps
                  /\ i < Len(ins)
                  /\ \/ /\ ins[i + 1].op = "zext"
                        /\ ins[i + 1].x = Reg(I1, ins[i].dst)
                        /\ \A j \in 1..Len(ins) :
                              /\ ins[j].x.k = "reg" /\ ins[j].x.v = ins[i + 1].dst
                                    => ins[j].x.t = I64
                              /\ ins[j].y.k = "reg" /\ ins[j].y.v = ins[i + 1].dst
                                    => ins[j].y.t = I64
                     \/ /\ ins[i + 1].op = "cbr"
                        /\ ins[i + 1].x = Reg(I1, ins[i].dst)
                        /\ ins[i].s = "!="
                        /\ ins[i].y = Const(I64, 0)
                        /\ ins[i].x.t = I64

\* a step of the run: a comparison gives 1 or 0 by the order of the signed
\* integers, the widening keeps that value, a remainder by a nonzero value
\* has the sign of the dividend, and a conditional branch goes to its first
\* target exactly when the value tested against 0 is not 0
RunStepIsSigned ==
    /\ At({"icmp"}) =>
          regs'[CurInstr.dst]
              = Truth(CurInstr.s, Operand(CurInstr.x), Operand(CurInstr.y))
    /\ At({"zext"}) =>
          /\ regs'[CurInstr.dst] \in {0, 1}
          /\ regs'[CurInstr.dst] = Operand(CurInstr.x)
    /\ (At({"srem"}) /\ Operand(CurInstr.y) # 0) =>
          regs'[CurInstr.dst]
              = RemainderOf(Operand(CurInstr.x), Operand(CurInstr.y))
    /\ At({"cbr"}) =>
          LET test == MainFunc.blocks[pc.blk].instrs[pc.idx - 1]
          IN  /\ test.op = "icmp"
              /\ pc'.blk = IF Operand(test.x) # 0 THEN CurInstr.t1
                           ELSE CurInstr.t2

\* C25: every comparison (==, !=, >, <) evaluates to exactly 0 or 1 as a
\* 64-bit value by signed comparison, % is the signed remainder (sign of the
\* dividend), and an if or while condition is taken as true exactly when
\* its value is not 0, so a condition that is a bare variable or a
\* remainder, a negative one included, is true whenever it is nonzero.
C25_ComparisonsAreZeroOrOneConditionsNonzero ==
    /\ [](ConditionsMeanNonzero /\ ComparisonsAreWidened)
    /\ [][RunStepIsSigned]_vars

\* x = -5; if (x % 2) ...: the remainder is -1 and the then body has run
C25_Witness ==
    /\ IsTruthProgram
    /\ status = "returned"
    /\ program[1].value.value = -5
    /\ program[2].k = "IfStatement"
    /\ program[2].condition = TestedExpr
    /\ TestedExpr.k = "BinaryOp"
    /\ TestedExpr.op = "%"
    /\ TestedExpr.right.value = 2
    /\ output = <<PrintedInt(10)>>
    /\ "if.then" \in Range(trace)

----------------------------------------------------------------------------
(* Names introduced inside the body of an if or a while.                    *)

\* the names a statement reads, increments or decrements itself
Needed(st) ==
    CASE st.k \in {"PrintStatement", "AssignStatement"} -> ReadNames(st.value)
      [] st.k \in {"IncrementStatement", "DecrementStatement"} -> {st.name}
      [] OTHER -> {}

\* no step but the entry and the end of a function takes a name out of the
\* table, and only a Declare of the name gives it another slot; the end of
\* a body and the step from one clause to the next change nothing
TableKeptAcrossBodies ==
    /\ (status = "gen" /\ work # <<>> /\ ~AtStmt({"FnStatement"})
          /\ ~AtFrame("fnexit")) =>
            \A n \in DOMAIN variables :
                /\ n \in DOMAIN variables'
                /\ ~(AtStmt({"DeclareStatement"}) /\ CurStmt.name = n)
                      => variables'[n] = variables[n]
    /\ (AtFrame("close") \/ AtFrame("elif")) => variables' = variables

\* a read, Increment or Decrement of names the table holds raises no
\* CodeGenError
KnownUseAccepted ==
    (status = "gen" /\ work # <<>> /\ UsedNames # {}
        /\ UsedNames \subseteq DOMAIN variables)
        => status' # "CodeGenError"

\* in the statement list ss of a function whose table starts with the names
\* base: a statement that uses only names introduced before it in the
\* list, at any depth of if and while bodies, is not where CodeGenError was
\* raised
UsesAccepted(ss, base) ==
    \A i \in 1..Len(ss) :
        (Needed(ss[i]) # {}
            /\ Needed(ss[i]) \subseteq
                 base \cup IntroducedNames(SubSeq(ss, 1, i - 1)))
            => ~(status = "CodeGenError" /\ errLine = ss[i].line)

OuterUseAccepted ==
    /\ UsesAccepted(program, {})
    /\ \A fs \in FnStmts(program) : UsesAccepted(fs.body, Range(fs.params))

\* C26: a name added to the variable table while an if, elif, else or while
\* body is lowered (by Declare, first Assign or Input inside the body) stays
\* in the table after the construct: a later read, Increment or Decrement
\* of that name outside the body, in the same function, raises no
\* CodeGenError, also on the paths of the run where the body is not
\* executed.
C26_BodyNamesOutliveTheBody ==
    /\ []OuterUseAccepted
    /\ [][TableKeptAcrossBodies /\ KnownUseAccepted]_vars

\* a name introduced only in the body of an if or a while was used behind
\* the statement and the program was lowered to its end
C26_Witness ==
    /\ status = "done"
    /\ Len(program) = 3
    /\ program[1].k = "DeclareStatement"
    /\ program[2].k \in {"IfStatement", "WhileStatement"}
    /\ program[3].k \in {"PrintStatement", "IncrementStatement",
                         "DecrementStatement"}
    /\ Needed(program[3]) # {}
    /\ Needed(program[3]) \subseteq IntroducedBy(program[2])
    /\ Needed(program[3]) \cap IntroducedBy(program[1]) = {}
    /\ Needed(program[3]) \subseteq DOMAIN variables

----------------------------------------------------------------------------
(* The parameters of a function.                                            *)

\* the elements of a set of numbers in increasing order
Ascending(S) ==
    CHOOSE s \in [1..Cardinality(S) -> S] :
        \A i, j \in 1..Cardinality(S) : i < j => s[i] < s[j]

\* the pieces between the commas of the text in the parentheses of header
\* line l (its name holding no parenthesis), each without the whitespace
\* around it
HeaderPieces(l) ==
    LET open == Min({i \in 1..Len(l) : l[i] = "("})
        close == Max({i \in 1..Len(l) : l[i] = ")"})
        commas == {i \in (open + 1)..(close - 1) : l[i] = ","}
        cuts == <<open>> \o Ascending(commas) \o <<close>>
    IN  [k \in 1..(Len(cuts) - 1) |->
            Strip(SubSeq(l, cuts[k] + 1, cuts[k + 1] - 1))]

\* the index of the first FN_RUNDA behind token j
RundaAfter(j) ==
    Min({q \in (j + 1)..Len(tokens) : tokens[q].type = "FN_RUNDA"})

\* behind every FN_GA the lexer has emitted come one IDENT for each piece
\* of the header's argument text, at least one, and FN_RUNDA
HeaderHasOneIdentPerPiece ==
    \A j \in 1..Len(tokens) :
        tokens[j].type = "FN_GA" =>
            LET pieces == HeaderPieces(Strip(lines[tokens[j].line]))
                r == RundaAfter(j)
            IN  /\ Len(pieces) >= 1
                /\ r = j + Len(pieces) + 1
                /\ \A k \in 1..Len(pieces) :
                      tokens[j + k] = Token("IDENT", pieces[k], tokens[j].line)

\* _parse_function makes a parameter of every IDENT between FN_GA and
\* FN_RUNDA
EveryIdentIsAParameter ==
    status \notin LexStage =>
        \A p \in 0..Len(tokens) :
            TokAt(tokens, p).type = "FN_PREFIX" =>
                \A r \in {ParseFunction(tokens, p)} :
                    r.err = "" =>
                        LET n == RundaAfter(p + 3) - (p + 3) - 1
                        IN  r.node.params
                              = [i \in 1..n |-> Join(tokens[p + 3 + i].value)]

\* every FnStatement of the Program has a parameter
FunctionsHaveParameters ==
    \A fs \in FnStmts(program) : Len(fs.params) >= 1

\* a header with nothing between its parentheses matches no line form: the
\* lexer raises LexerError at its line
EmptyParenthesesAreNoHeader ==
    /\ Classify(FnNoParamsLine) = "none"
    /\ \A i \in 1..Len(lines) :
          (lines[i] = FnNoParamsLine /\ status \notin LexStage) =>
              /\ status = "LexerError"
              /\ errLine = i
              /\ program = <<>>

\* C27: every FnStatement obtained by lexing and parsing source text has at
\* least one parameter: the function-header matcher requires at least one
\* character between the parentheses and emits one IDENT token per
\* comma-separated piece (an empty or blank piece gives an IDENT with the
\* empty name), the parser turns every IDENT before FN_RUNDA into a
\* parameter, and a header written with () is not recognized as a function
\* header.
C27_FunctionsHaveAtLeastOneParameter ==
    /\ HeaderHasOneIdentPerPiece
    /\ EveryIdentIsAParameter
    /\ FunctionsHaveParameters
    /\ EmptyParenthesesAreNoHeader

\* the header f ga (y, ) has been parsed: the parameters are y and the
\* empty name
C27_Witness ==
    /\ status = "idle"
    /\ lines = <<FnBlankLastLine, Print1, CloseLine>>
    /\ Len(program) = 1
    /\ program[1].k = "FnStatement"
    /\ program[1].params = <<"y", "">>

----------------------------------------------------------------------------
(* The line buffer and the brace depth of the interactive shell.            *)

\* the number of { less the number of } over the lines ls
RECURSIVE Cumulative(_)
Cumulative(ls) ==
    IF ls = <<>> THEN 0
    ELSE Count(Head(ls), "{") - Count(Head(ls), "}") + Cumulative(Tail(ls))

\* nothing but whitespace in the lines ls
OnlyWhitespace(ls) ==
    \A i \in 1..Len(ls) : \A j \in 1..Len(ls[i]) : IsWs(ls[i][j])

\* at every prompt the depth is not negative, it is the count over the
\* buffered lines, and lines are buffered exactly when it is positive (the
\* prompt is then the one of a continuation)
PromptState ==
    status = "prompt" =>
        /\ brace_depth >= 0
        /\ brace_depth = Cumulative(buffer)
        /\ buffer # <<>> <=> brace_depth > 0

\* input() has returned a line
LineRead == status = "prompt" /\ status' # "left"

\* the line is buffered and the next prompt asks for more: the count over
\* the buffer is positive
Buffered ==
    /\ status' = "prompt"
    /\ Len(buffer') = Len(buffer) + 1
    /\ SubSeq(buffer', 1, Len(buffer)) = buffer
    /\ brace_depth' = Cumulative(buffer')
    /\ brace_depth' > 0

\* the buffer is emptied and the depth is 0 again, whatever the count was
Flushed ==
    /\ buffer' = <<>>
    /\ brace_depth' = 0

\* the lines of the buffer and the line read are handed to the compiler:
\* their count is not positive
Compiled28 ==
    /\ status' = "tokenize"
    /\ IsPrefix(buffer, lines')
    /\ Len(lines') \in {Len(buffer), Len(buffer) + 1}
    /\ Cumulative(lines') <= 0

\* as stated: a line that is read is either buffered, the count being
\* positive, or the buffered lines with it are compiled
CompiledWheneverCountNotPositive ==
    LineRead => \/ Buffered
                \/ Flushed /\ Compiled28

\* C28 as stated: at every prompt the brace depth is >= 0 and the buffer is
\* non-empty exactly when the depth is > 0; input is compiled exactly when,
\* after adding a line, the count of { minus } over the buffered lines is
\* <= 0, and a surplus of } never leaves a negative depth for the next
\* input.
C28_CompiledExactlyWhenBalanced ==
    /\ []PromptState
    /\ [][CompiledWheneverCountNotPositive]_vars

\* a line that is read is buffered, or the buffer is emptied and the lines
\* are compiled unless they hold nothing but whitespace, which only a
\* single line read at an empty buffer can
CompiledUnlessBlank ==
    LineRead => \/ Buffered
                \/ /\ Flushed
                   /\ Compiled28
                   /\ ~OnlyWhitespace(lines')
                \/ /\ Flushed
                   /\ status' = "prompt"
                   /\ buffer = <<>>

\* C28 amended: at every prompt the brace depth is >= 0 and the buffer is
\* non-empty exactly when the depth is > 0; when, after adding a line, the
\* count of { minus } over the buffered lines is <= 0 the buffer is emptied
\* and the depth set to 0, so a surplus of } never leaves a negative depth
\* for the next input, and the input is compiled unless it is blank: a
\* blank line at the first prompt is dropped without being compiled.
C28_CompiledWhenBalancedAndNotBlank ==
    /\ []PromptState
    /\ [][CompiledUnlessBlank]_vars

\* a lone closing brace was compiled (count -1), its ParseError was caught,
\* and the next prompt is the first prompt again
C28_Witness ==
    /\ status = "prompt"
    /\ lines = <<CloseLine>>
    /\ tokens # <<>>
    /\ Cumulative(lines) < 0
    /\ brace_depth = 0
    /\ buffer = <<>>

============================================================================
